---- MODULE Spec2Model ----
(***************************************************************************)
(* Model of the chi-chi reservation bot: the Redis-backed scheduled queue  *)
(* (store/reservations.go), the scheduler loop and the deferred branch of  *)
(* the /api/reserve handler (main.go), and the challenge-aware HTTP client *)
(* (doRequestWithRetry), the Reserve pipeline, the token store            *)
(* (store/cookies.go) with the cookie refresh goroutine and the import     *)
(* handler, and the Reserve calls that share one API value.                *)
(*                                                                         *)
(* Time is counted in ticks of 30 seconds, the scheduler's wait cap.  A    *)
(* time.Time value is a record [sec, nsec]: sec counts whole ticks, nsec   *)
(* the nanosecond readings inside one tick.                                *)
(***************************************************************************)
EXTENDS Integers, Sequences, FiniteSets, TLC

\* ---------------------------------------------------------------- bounds
MaxTime == 2          \* last clock tick of the model
MaxNsec == 1          \* nanosecond readings per tick are 0..MaxNsec
MaxRequests == 2      \* deferred /api/reserve requests accepted in one run
MaxRunRequests == 1   \* the same, in the runs of RunSpec
MaxRestarts == 1      \* process restarts in one run
NumHandlers == 2      \* /api/reserve requests in flight at the same time
MaxFaults == 1        \* Redis commands that fail because Redis does not answer
MaxQueueId == 3       \* ids of the records given to the queue operations are 0..MaxQueueId
MaxMinutes == 2       \* their run instants are the whole minutes 0..MaxMinutes
MaxRetriesArg == 2    \* doRequestWithRetry is called with maxRetries in 0..MaxRetriesArg
MaxSetCookie == 1     \* Set-Cookie headers of one response
MaxCalls == 1         \* calls of doRequestWithRetry on one API value
MaxSlots == 2         \* slots of one find response
MaxInstants == 2      \* requested instants of one Reserve call
MaxTableTypes == 2    \* table types of one Reserve call
MaxBlocks == 3        \* venue blocks of one find response
MaxLive == 2          \* entries of API.Cookies before a response is harvested
MaxHarvest == 2       \* Set-Cookie headers of the response that is harvested
MaxHours == 27        \* last hour of the runs of the cookie refresh goroutine
MaxTokenHours == 8    \* the same, in the runs with failures and imports
MaxFetchHours == 1    \* a FetchCookies call ends within 0..MaxFetchHours hour ticks
MaxVenues == 2        \* known venues of the configuration
MaxImports == 1       \* requests to /admin/cookies/import in one run

\* ------------------------------------------------------ program constants
WaitCap == 1          \* 30 * time.Second, in ticks
SecondsPerTick == 30
TicksPerMinute == 2   \* parseTimeNYC parses "2006-01-02T15:04": whole minutes

None == "none"

\* no id: ZRANGE returned an empty list
NoId == -1

\* no record: a nil *ScheduledReservation
NoRes == [ID |-> NoId]

NanosPerTick == MaxNsec + 1

Time(s, n) == [sec |-> s, nsec |-> n]

\* t.After(u)
After(t, u) == t.sec > u.sec \/ (t.sec = u.sec /\ t.nsec > u.nsec)

\* t.Unix(): whole seconds, the sub-second part is dropped
Unix(t) == t.sec * SecondsPerTick

\* t.UnixNano()
UnixNano(t) == t.sec * NanosPerTick + t.nsec

\* t.Sub(u) rounded up to whole ticks; only used when t.After(u) and t.nsec = 0
SubTicks(t, u) == t.sec - u.sec

Min(a, b) == IF a < b THEN a ELSE b

\* run instants a request can carry: parseTimeNYC yields whole minutes
RunTimes == {Time(s, 0) : s \in {t \in 0..MaxTime : t % TicksPerMinute = 0}}

\* the rest of a deferred request, as the handler receives it
Requests ==
  { [VenueID |-> 1, ReservationTime |-> Time(6, 0), PartySize |-> 2,
     TablePreferences |-> <<>>, AuthToken |-> "tokA"] }

\* ids GenerateReservationID can return while requests are accepted
Ids == 0..(MaxTime * NanosPerTick + MaxNsec)

VARIABLES
  clock,        \* wall clock, [sec, nsec]
  faultsLeft,   \* Redis commands that may still fail for lack of an answer
  details,      \* Redis keys reservations:<id> -> JSON document
  pending,      \* Redis sorted set reservations:pending: id -> score
  h_pc,         \* per request handler: "idle", "set", "zadd"
  h_res,        \* per request handler: the record being saved
  d_pc,         \* scheduler goroutine position
  d_id,         \* id returned by ZRange in GetNextReservation
  nextRes,      \* record returned by GetNextReservation
  timer,        \* ticks left of the running time.After
  cancelled,    \* ctx of the scheduler is cancelled
  restarts,     \* process restarts so far
  nreq,         \* deferred requests accepted so far
  attempted,    \* history: records passed to Reserve at least once
  accepted,     \* history: records whose SaveReservation returned nil
  wake,         \* select case that woke the blocked scheduler, or None
  peekSet,      \* history: RunTime of every pending record at the last ZRange
  errSeen,      \* history: the scheduler has met a store error or a failed attempt
  a_cookies,    \* API.Cookies, the live token set: sequence of [name, value]
  c_pc,         \* doRequestWithRetry: "idle", "send", "recv", "done"
  c_maxRetries, \* its maxRetries argument
  c_hasBody,    \* bodyBytes != nil
  c_attempt,    \* loop variable attempt
  c_origCookies,\* Cookie header saved in originalHeaders
  c_reqCookies, \* Cookie header of the request object req
  c_sent,       \* history: Cookie header of every request given to client.Do
  c_allChallenge, \* history: every client.Do so far returned a challenge response
  c_result,     \* what the call returned
  c_calls,      \* calls of doRequestWithRetry so far
  c_last,       \* history: the response the last client.Do returned
  r_pc,         \* Reserve: "idle", "find", "pair", "detail", "book", "done"
  r_times,      \* params.ReservationTimes
  r_types,      \* params.TableTypes
  r_slots,      \* jsonSlotsList of the selected venue block
  r_k,          \* loop variable k: index of the table type
  r_i,          \* loop variable i: index of the requested instant
  r_best,       \* bestSlotIndex, bestSlotTime, ... after the slot search
  r_cfg,        \* configToken of the detail request
  r_result,     \* what Reserve returned
  r_resp,       \* the response the last step received
  r_sent,       \* history: detail and book requests sent
  r_chal,       \* history: a challenge response was left unresolved
  r_pairs,      \* history: the (table type, instant) pairs searched, in order
  fn_pc,        \* a function applied on its own: "idle", "classified", "merged"
  fn_resp,      \* the response given to it
  fn_cookies,   \* API.Cookies before extractCookiesFromResponse
  fn_out,       \* what it returned, or API.Cookies after it
  hours,        \* time since the start of the process, in hours
  cookieData,   \* Redis keys cookies:<venue>: venue -> CookieData
  f_pc,         \* handleCookieRefresh: "startup", "range", "fetch", "select", "done"
  f_i,          \* index of the range loop of refreshAllCookies
  f_left,       \* hours left of the running FetchCookies
  f_nextTick,   \* hour of the ticker's next tick, NoTicker before time.NewTicker
  f_tickReady,  \* ticker.C holds a tick
  f_checked,    \* history: venues given to refreshCookiesIfNeeded in this pass
  saved,        \* history: venues whose tokens were saved at least once
  imports,      \* requests to /admin/cookies/import so far
  i_req,        \* the last such request
  i_status,     \* the status it was answered with
  v_pc,         \* Reserve calls on the shared API value: "idle", "build", "recv", "done"
  v_venue,      \* params.VenueID of each call
  v_attempt,    \* attempt of each call's doRequestWithRetry
  v_orig,       \* originalHeaders of each call: the Cookie header it saved
  v_loaded,     \* history: tokens each call loaded from its venue's entry
  v_harvested,  \* history: tokens each call harvested from challenge responses
  v_sent        \* history: the find requests sent

storeVars == <<details, pending>>
handlerVars == <<h_pc, h_res, nreq, accepted>>
schedVars == <<d_pc, d_id, nextRes, timer, wake, attempted, peekSet, errSeen>>
clientVars == <<a_cookies, c_pc, c_maxRetries, c_hasBody, c_attempt, c_origCookies,
                c_reqCookies, c_sent, c_allChallenge, c_result, c_calls, c_last>>
reserveVars == <<r_pc, r_times, r_types, r_slots, r_k, r_i, r_best, r_cfg, r_result,
                 r_resp, r_sent, r_chal, r_pairs>>
fnVars == <<fn_pc, fn_resp, fn_cookies, fn_out>>
refreshVars == <<f_pc, f_i, f_left, f_nextTick, f_tickReady, f_checked>>
importVars == <<imports, i_req, i_status>>
callVars == <<v_pc, v_venue, v_attempt, v_orig, v_loaded, v_harvested, v_sent>>
cookieVars == <<fnVars, hours, cookieData, refreshVars, saved, importVars, callVars>>
vars == <<clock, faultsLeft, details, pending, h_pc, h_res, d_pc, d_id, nextRes,
          timer, wake, cancelled, restarts, nreq, attempted, accepted,
          peekSet, errSeen, clientVars, reserveVars, cookieVars>>

Handlers == 1..NumHandlers

\* ------------------------------------------------------------ JSON codec

\* json.Marshal of a ScheduledReservation: field names are the json tags,
\* a time.Time is written as an RFC 3339 string in UTC
FormatTime(t) == <<"Z", t.sec, t.nsec>>

ParseTime(s) == Time(s[2], s[3])

Marshal(res) ==
  [id |-> res.ID, venue_id |-> res.VenueID,
   reservation_time |-> FormatTime(res.ReservationTime),
   party_size |-> res.PartySize,
   table_preferences |-> res.TablePreferences,
   auth_token |-> res.AuthToken,
   run_time |-> FormatTime(res.RunTime),
   created_at |-> FormatTime(res.CreatedAt)]

Unmarshal(doc) ==
  [ID |-> doc.id, VenueID |-> doc.venue_id,
   ReservationTime |-> ParseTime(doc.reservation_time),
   PartySize |-> doc.party_size,
   TablePreferences |-> doc.table_preferences,
   AuthToken |-> doc.auth_token,
   RunTime |-> ParseTime(doc.run_time),
   CreatedAt |-> ParseTime(doc.created_at)]

\* ------------------------------------------------------------ Redis store

\* res_<UnixNano>; ids of one run have the same number of digits, so the
\* lexicographic order of the sorted set's ties is the numeric order
GenerateReservationID == UnixNano(clock)

\* a command fails when Redis does not answer; on a cancelled context the
\* client may also fail it before sending
CmdOutcomes(ctxCancelled) ==
  IF ctxCancelled \/ faultsLeft > 0 THEN {TRUE, FALSE} ELSE {TRUE}

\* a failure on a live context is one of the faults of the run
FaultsAfter(ok, ctxCancelled) ==
  IF ~ok /\ ~ctxCancelled THEN faultsLeft - 1 ELSE faultsLeft

\* SET key value
RedisSet(d, id, doc) == [x \in DOMAIN d \cup {id} |-> IF x = id THEN doc ELSE d[x]]

\* DEL key
RedisDel(d, id) == [x \in DOMAIN d \ {id} |-> d[x]]

\* ZADD key score member
ZAdd(p, id, score) == [x \in DOMAIN p \cup {id} |-> IF x = id THEN score ELSE p[x]]

\* ZREM key member
ZRem(p, id) == [x \in DOMAIN p \ {id} |-> p[x]]

\* the first member in member order, whatever its score
ZRangeFirst_ByMember(p) ==
  IF DOMAIN p = {} THEN NoId
  ELSE CHOOSE x \in DOMAIN p : \A y \in DOMAIN p : x <= y

\* ZRANGE key 0 0: the member with the lowest score, ties by member
ZRangeFirst(p) ==
  IF DOMAIN p = {} THEN NoId
  ELSE CHOOSE x \in DOMAIN p :
         \A y \in DOMAIN p : p[x] < p[y] \/ (p[x] = p[y] /\ x <= y)

\* ZCARD key
CountPendingReservations == Cardinality(DOMAIN pending)

\* ---------------------------------------------------- Reserve: slot search

\* an instant is a count of minutes on the UTC time line; the venue's civil
\* time is New York's, taken at its winter offset (no daylight-saving change
\* inside the model's two days)
MinutesPerHour == 60
MinutesPerDay == 1440
NYCOffset == 300       \* time.LoadLocation("America/New_York"): UTC-5

\* "var bestTimeDiff time.Duration = 31 * time.Minute"
InitialBestTimeDiff == 31
\* "const maxTimeDiff = 30 * time.Minute"
MaxTimeDiff == 30

\* a slot's "start" string "2006-01-02 15:04:05": date, hour, minute (the
\* seconds are replaced by ":00" before parsing)
Start(d, h, m) == [date |-> d, hour |-> h, minute |-> m]

\* time.ParseInLocation(layout, start, nycLocation)
ParseInLocation(start) ==
  start.date * MinutesPerDay + start.hour * MinutesPerHour + start.minute + NYCOffset

\* t.In(nycLocation).Year(), Month(), Day() as one day number
LocalDate(t) == (t - NYCOffset) \div MinutesPerDay

\* t.In(nycLocation).Hour() and Minute()
LocalHour(t) == ((t - NYCOffset) % MinutesPerDay) \div MinutesPerHour
LocalMinute(t) == ((t - NYCOffset) % MinutesPerDay) % MinutesPerHour

\* parseTimeNYC: the handler's "2006-01-02T15:04" read in New York, as UTC
ParseTimeNYC(start) == ParseInLocation(start)

\* a string is the sequence of its characters
IndoorDiningRoom ==
  <<"I","n","d","o","o","r"," ","D","i","n","i","n","g"," ","R","o","o","m">>
Patio == <<"P","a","t","i","o">>
FilterLower == <<"d","i","n","i","n","g">>
FilterCapital == <<"D","i","n","i","n","g">>
FilterUpper == <<"D","I","N","I","N","G">>
FilterPatio == <<"p","a","t","i","o">>

\* unicode.ToLower on the letters of the model
LowerChar(c) ==
  CASE c = "D" -> "d" [] c = "G" -> "g" [] c = "I" -> "i" [] c = "N" -> "n"
    [] c = "P" -> "p" [] c = "R" -> "r" [] OTHER -> c

\* strings.ToLower
ToLower(str) == [i \in 1..Len(str) |-> LowerChar(str[i])]

\* strings.Contains
Contains(str, sub) ==
  \E i \in 0..(Len(str) - Len(sub)) : SubSeq(str, i + 1, i + Len(sub)) = sub

\* a config token is opaque; the model's token of a slot names the slot's
\* start, and the empty string is NoToken
NoToken == Start(0, 0, 0)

\* a slot of the find response: date.start, config.type, config.token; hasType
\* and hasToken are the ok results of the two string assertions
Slot(start, hasType, type, hasToken) ==
  [start |-> start, hasType |-> hasType, type |-> type, hasToken |-> hasToken,
   token |-> IF hasToken THEN start ELSE NoToken]

\* the search state before the first slot: main loop locals of one pair
NoBest ==
  [index |-> -1, time |-> 0, token |-> NoToken, diff |-> InitialBestTimeDiff,
   exact |-> FALSE]

AbsDiff(a, b) == IF a < b THEN b - a ELSE a - b

\* the table type check of one slot
TableTypeOk(slot, hasPref, filter) ==
  ~hasPref \/ (slot.hasType /\ Contains(ToLower(slot.type), filter))

\* the window test without the comparison with the best slot so far
WithinWindow_AnyInWindow(d, best) == d <= MaxTimeDiff

\* "absTimeDiff <= maxTimeDiff && absTimeDiff < bestTimeDiff"
WithinWindow(d, best) == d <= MaxTimeDiff /\ d < best

\* the exact test on the hour alone
TimeMatches_HourOnly(slotTime, currentTimeNYC) ==
  LocalHour(slotTime) = LocalHour(currentTimeNYC)

\* "slotTime.Hour() == currentTimeNYC.Hour() && slotTime.Minute() == ..."
TimeMatches(slotTime, currentTimeNYC) ==
  /\ LocalHour(slotTime) = LocalHour(currentTimeNYC)
  /\ LocalMinute(slotTime) = LocalMinute(currentTimeNYC)

\* the date test dropped
SameDate_Always(slotTime, currentTimeNYC) == TRUE

\* slotTime and currentTimeNYC have the same year, month and day
SameDate(slotTime, currentTimeNYC) == LocalDate(slotTime) = LocalDate(currentTimeNYC)

\* the loop over jsonSlotsList from index j (1-based here), for one requested
\* instant and one table type: the locals bestSlotIndex, bestSlotTime,
\* bestSlotConfigToken, bestTimeDiff, foundExactMatch after the loop
RECURSIVE SlotSearch(_, _, _, _, _, _)
SlotSearch(slots, j, best, currentTime, hasPref, filter) ==
  IF j > Len(slots) THEN best
  ELSE
    LET slot == slots[j]
        slotTime == ParseInLocation(slot.start)
        \* the token is taken over only when the slot has one
        tok == IF slot.hasToken THEN slot.token ELSE best.token
    IN  IF ~SameDate(slotTime, currentTime)
        THEN SlotSearch(slots, j + 1, best, currentTime, hasPref, filter)
        ELSE IF ~TableTypeOk(slot, hasPref, filter)
        THEN SlotSearch(slots, j + 1, best, currentTime, hasPref, filter)
        ELSE IF TimeMatches(slotTime, currentTime)
        THEN [index |-> j - 1, time |-> slotTime, token |-> tok,
              diff |-> best.diff, exact |-> TRUE]
        ELSE IF WithinWindow(AbsDiff(slotTime, currentTime), best.diff)
        THEN SlotSearch(slots, j + 1,
                        [index |-> j - 1, time |-> slotTime, token |-> tok,
                         diff |-> AbsDiff(slotTime, currentTime), exact |-> FALSE],
                        currentTime, hasPref, filter)
        ELSE SlotSearch(slots, j + 1, best, currentTime, hasPref, filter)

\* the slot search of one (table type, instant) pair
Match(slots, currentTime, hasPref, filter) ==
  SlotSearch(slots, 1, NoBest, currentTime, hasPref, filter)

\* what Reserve returns: a ReserveResponse with the booked instant, or an error
Result(kind, step, status, time) ==
  [kind |-> kind, step |-> step, status |-> status, time |-> time]

NoResult == Result(None, "", 0, 0)

\* an HTTP exchange of one pipeline step: err is client.Do's error
Response(step, err, status, xcdn, server, body) ==
  [step |-> step, err |-> err, status |-> status, xcdn |-> xcdn, server |-> server,
   body |-> body]

NoResponse == Response("", FALSE, 0, "", "", "")

\* Reserve is not running
InitReserve ==
  /\ r_pc = "idle"
  /\ r_times = << >>
  /\ r_types = << >>
  /\ r_slots = << >>
  /\ r_k = 0
  /\ r_i = 0
  /\ r_best = NoBest
  /\ r_cfg = NoToken
  /\ r_result = NoResult
  /\ r_resp = NoResponse
  /\ r_sent = {}
  /\ r_chal = FALSE
  /\ r_pairs = << >>

NoTicker == -1

\* an import request: method, Authorization header, token query parameter,
\* whether the body decodes, and the decoded CookieImportRequest
ImportRequest(adminToken, method, header, query, decodes, venue, cookies, ua, ttlHours) ==
  [adminToken |-> adminToken, method |-> method, header |-> header, query |-> query,
   decodes |-> decodes, VenueID |-> venue, Cookies |-> cookies, UserAgent |-> ua,
   TTLHours |-> ttlHours]

NoImport == ImportRequest("", "", << >>, "", FALSE, 0, << >>, "", 0)

\* no function has been applied, Redis holds no tokens, the refresh goroutine
\* has just been started
\* client.Do has not returned yet; client.Do returned an error and no response
NoDoResult == [status |-> 0, xcdn |-> "", server |-> "", setCookie |-> << >>]
DoFailed == [status |-> -1, xcdn |-> "", server |-> "", setCookie |-> << >>]

\* the two places that call Reserve on the one API value of the process: the
\* /api/reserve handler and the scheduler
Callers == {"immediate", "scheduled"}

InitCookies ==
  /\ fn_pc = "idle"
  /\ fn_resp = [status |-> 0, xcdn |-> "", server |-> "", setCookie |-> << >>]
  /\ fn_cookies = << >>
  /\ fn_out = << >>
  /\ hours = 0
  /\ cookieData = << >>
  /\ f_pc = "startup"
  /\ f_i = 0
  /\ f_left = 0
  /\ f_nextTick = NoTicker
  /\ f_tickReady = FALSE
  /\ f_checked = << >>
  /\ saved = {}
  /\ imports = 0
  /\ i_req = NoImport
  /\ i_status = 0
  /\ v_pc = [c \in Callers |-> "idle"]
  /\ v_venue = [c \in Callers |-> 0]
  /\ v_attempt = [c \in Callers |-> 0]
  /\ v_orig = [c \in Callers |-> << >>]
  /\ v_loaded = [c \in Callers |-> {}]
  /\ v_harvested = [c \in Callers |-> {}]
  /\ v_sent = {}

\* ------------------------------------------------------------------ Init
Init ==
  /\ clock = Time(0, 0)
  /\ faultsLeft = MaxFaults
  /\ details = << >>
  /\ pending = << >>
  /\ h_pc = [h \in Handlers |-> "idle"]
  /\ h_res = [h \in Handlers |-> NoRes]
  /\ d_pc = "top"
  /\ d_id = NoId
  /\ nextRes = NoRes
  /\ timer = 0
  /\ cancelled = FALSE
  /\ restarts = 0
  /\ nreq = 0
  /\ attempted = {}
  /\ accepted = {}
  /\ wake = None
  /\ peekSet = {}
  /\ errSeen = FALSE
  /\ a_cookies = << >>
  /\ c_pc = "idle"
  /\ c_maxRetries = 0
  /\ c_hasBody = FALSE
  /\ c_attempt = 0
  /\ c_origCookies = << >>
  /\ c_reqCookies = << >>
  /\ c_sent = << >>
  /\ c_allChallenge = TRUE
  /\ c_result = None
  /\ c_calls = 0
  /\ c_last = NoDoResult
  /\ InitReserve
  /\ InitCookies

\* -------------------------------------------- /api/reserve, deferred branch

\* the handler builds the record: main.go 1060-1073
ReserveScheduled(h) ==
  /\ h_pc[h] = "idle"
  /\ \A g \in Handlers : g < h => h_pc[g] # "idle"
  /\ ~cancelled
  /\ nreq < MaxRequests
  /\ clock.sec < MaxTime
  /\ \E req \in Requests, run \in RunTimes :
       LET res == [ID |-> GenerateReservationID,
                   VenueID |-> req.VenueID,
                   ReservationTime |-> req.ReservationTime,
                   PartySize |-> req.PartySize,
                   TablePreferences |-> req.TablePreferences,
                   AuthToken |-> req.AuthToken,
                   RunTime |-> run,
                   CreatedAt |-> clock]
       IN  /\ h_res' = [h_res EXCEPT ![h] = res]
           /\ h_pc' = [h_pc EXCEPT ![h] = "set"]
  /\ nreq' = nreq + 1
  /\ UNCHANGED <<cookieVars, reserveVars, clientVars, clock, faultsLeft, storeVars, schedVars, cancelled, restarts, accepted>>

\* SaveReservation, first write: SET reservations:<id>
SaveReservationSet(h) ==
  /\ h_pc[h] = "set"
  /\ \E ok \in CmdOutcomes(FALSE) :
       /\ faultsLeft' = FaultsAfter(ok, FALSE)
       /\ IF ok
          THEN /\ details' = RedisSet(details, h_res[h].ID, Marshal(h_res[h]))
               /\ h_pc' = [h_pc EXCEPT ![h] = "zadd"]
               /\ UNCHANGED h_res
          ELSE /\ h_pc' = [h_pc EXCEPT ![h] = "idle"]
               /\ h_res' = [h_res EXCEPT ![h] = NoRes]
               /\ UNCHANGED details
  /\ UNCHANGED <<cookieVars, reserveVars, clientVars, clock, pending, schedVars, cancelled, restarts, nreq, accepted>>

\* SaveReservation, second write: ZADD reservations:pending score id
SaveReservationZAdd(h) ==
  /\ h_pc[h] = "zadd"
  /\ \E ok \in CmdOutcomes(FALSE) :
       /\ faultsLeft' = FaultsAfter(ok, FALSE)
       /\ IF ok
          THEN /\ pending' = ZAdd(pending, h_res[h].ID, Unix(h_res[h].RunTime))
               /\ accepted' = accepted \cup {h_res[h]}
          ELSE UNCHANGED <<pending, accepted>>
  /\ h_pc' = [h_pc EXCEPT ![h] = "idle"]
  /\ h_res' = [h_res EXCEPT ![h] = NoRes]
  /\ UNCHANGED <<cookieVars, reserveVars, clientVars, clock, details, schedVars, cancelled, restarts, nreq>>

\* ------------------------------------------------ handleScheduledReservations

\* a wait that is not a select on ctx.Done(): only the timer wakes it
SelectWake_TimerOnly(w, ctxDone, timerFired) ==
  IF w # None THEN w
  ELSE IF timerFired THEN "timer"
  ELSE None

\* a blocked select is woken by the first channel that becomes ready: ctx.Done()
\* or the time.After channel; when both are ready at once ctx.Done() is listed
\* first here, the runtime may take either
SelectWake(w, ctxDone, timerFired) ==
  IF w # None THEN w
  ELSE IF ctxDone THEN "done"
  ELSE IF timerFired THEN "timer"
  ELSE None

\* enter one of the two waits of the loop with a timer of d ticks; the locals
\* of the iteration are dead from here on
EnterWait(d) ==
  /\ d_pc' = "wait"
  /\ d_id' = NoId
  /\ nextRes' = NoRes
  /\ peekSet' = {}
  /\ timer' = d
  /\ wake' = SelectWake(None, cancelled, d = 0)

\* the sleep without its cap of 30 seconds
SleepDuration_Uncapped(res, now) == SubTicks(res.RunTime, now)

\* sleepDuration: RunTime - now, at most 30 seconds
SleepDuration(res, now) == Min(SubTicks(res.RunTime, now), WaitCap)

\* the due test on the wrong timestamp of the record
IsDue_CreatedAt(res, now) == ~After(res.CreatedAt, now)

\* the record is due when its RunTime is not after now
IsDue(res, now) == ~After(res.RunTime, now)

\* the outer select: ctx.Done() or default
LoopTop ==
  /\ d_pc = "top"
  /\ d_pc' = IF cancelled THEN "done" ELSE "zrange"
  /\ UNCHANGED <<cookieVars, reserveVars, clientVars, clock, faultsLeft, storeVars, handlerVars, d_id, nextRes, timer, wake,
                 cancelled, restarts, attempted, peekSet, errSeen>>

\* GetNextReservation, first command: ZRANGE reservations:pending 0 0
GetNextZRange ==
  /\ d_pc = "zrange"
  /\ \E ok \in CmdOutcomes(cancelled) :
       /\ faultsLeft' = FaultsAfter(ok, cancelled)
       /\ IF ok /\ ZRangeFirst(pending) # NoId
          THEN /\ d_pc' = "get"
               /\ d_id' = ZRangeFirst(pending)
               /\ peekSet' = {Unmarshal(details[x]).RunTime :
                                x \in DOMAIN pending \cap DOMAIN details}
               /\ UNCHANGED <<nextRes, timer, wake, errSeen>>
          ELSE /\ EnterWait(WaitCap)
               /\ errSeen' = (errSeen \/ ~ok)
  /\ UNCHANGED <<cookieVars, reserveVars, clientVars, clock, storeVars, handlerVars, cancelled, restarts, attempted>>

\* GetNextReservation, second command: GetReservation(ids[0])
GetNextGet ==
  /\ d_pc = "get"
  /\ \E ok \in CmdOutcomes(cancelled) :
       /\ faultsLeft' = FaultsAfter(ok, cancelled)
       /\ IF ok /\ d_id \in DOMAIN details
          THEN /\ nextRes' = Unmarshal(details[d_id])
               /\ d_id' = NoId
               /\ d_pc' = "check"
               /\ UNCHANGED <<timer, wake, errSeen, peekSet>>
          ELSE /\ EnterWait(WaitCap)
               /\ errSeen' = TRUE
  /\ UNCHANGED <<cookieVars, reserveVars, clientVars, clock, storeVars, handlerVars, cancelled, restarts, attempted>>

\* now := time.Now(); not yet due: sleep; due: call Reserve
CheckDue ==
  /\ d_pc = "check"
  /\ IF IsDue(nextRes, clock)
     THEN /\ d_pc' = "exec"
          /\ attempted' = attempted \cup {nextRes}
          /\ peekSet' = {}
          /\ UNCHANGED <<d_id, nextRes, timer, wake>>
     ELSE /\ EnterWait(SleepDuration(nextRes, clock))
          /\ UNCHANGED attempted
  /\ UNCHANGED <<cookieVars, reserveVars, clientVars, clock, faultsLeft, storeVars, handlerVars, cancelled, restarts, errSeen>>

\* the inner selects return: ctx.Done() ends the loop, the timer continues it
WaitReturn ==
  /\ d_pc = "wait"
  /\ wake # None
  /\ d_pc' = IF wake = "done" THEN "done" ELSE "top"
  /\ wake' = None
  /\ timer' = 0
  /\ UNCHANGED <<cookieVars, reserveVars, clientVars, clock, faultsLeft, storeVars, handlerVars, d_id, nextRes, cancelled,
                 restarts, attempted, peekSet, errSeen>>

\* Reserve returns and an error ends the loop
ReserveReturn_StopOnError ==
  /\ d_pc = "exec"
  /\ \E booked \in BOOLEAN :
       /\ errSeen' = (errSeen \/ ~booked)
       /\ d_pc' = IF booked THEN "zrem" ELSE "done"
  /\ UNCHANGED <<cookieVars, reserveVars, clientVars, clock, faultsLeft, storeVars, handlerVars, d_id, nextRes,
                 timer, wake, cancelled, restarts, attempted, peekSet>>

\* appCtx.API.Reserve returns, with a reservation or an error
ReserveReturn ==
  /\ d_pc = "exec"
  /\ \E booked \in BOOLEAN :
       errSeen' = (errSeen \/ ~booked)
  /\ d_pc' = "zrem"
  /\ UNCHANGED <<cookieVars, reserveVars, clientVars, clock, faultsLeft, storeVars, handlerVars, d_id, nextRes, timer, wake,
                 cancelled, restarts, attempted, peekSet>>

\* DeleteReservation, first command: ZREM reservations:pending id
DeleteReservationZRem ==
  /\ d_pc = "zrem"
  /\ \E ok \in CmdOutcomes(cancelled) :
       /\ faultsLeft' = FaultsAfter(ok, cancelled)
       /\ IF ok
          THEN /\ pending' = ZRem(pending, nextRes.ID)
               /\ d_pc' = "del"
               /\ UNCHANGED <<nextRes, errSeen>>
          ELSE /\ d_pc' = "top"
               /\ nextRes' = NoRes
               /\ errSeen' = TRUE
               /\ UNCHANGED pending
  /\ UNCHANGED <<cookieVars, reserveVars, clientVars, clock, details, handlerVars, d_id, timer, wake,
                 cancelled, restarts, attempted, peekSet>>

\* DeleteReservation, second command: DEL reservations:<id>
DeleteReservationDel ==
  /\ d_pc = "del"
  /\ \E ok \in CmdOutcomes(cancelled) :
       /\ faultsLeft' = FaultsAfter(ok, cancelled)
       /\ IF ok
          THEN details' = RedisDel(details, nextRes.ID) /\ UNCHANGED errSeen
          ELSE errSeen' = TRUE /\ UNCHANGED details
  /\ d_pc' = "top"
  /\ nextRes' = NoRes
  /\ UNCHANGED <<cookieVars, reserveVars, clientVars, clock, pending, handlerVars, d_id, timer, wake,
                 cancelled, restarts, attempted, peekSet>>

\* ------------------------------------------------------------ environment

\* the clock moves inside a tick
TickNano ==
  /\ clock.nsec < MaxNsec
  /\ clock.sec < MaxTime
  /\ clock' = Time(clock.sec, clock.nsec + 1)
  /\ UNCHANGED <<cookieVars, reserveVars, clientVars, faultsLeft, storeVars, handlerVars, schedVars, cancelled, restarts>>

\* 30 seconds pass; past MaxTime the clock reading stays, timers still run
TickSec ==
  /\ clock.sec < MaxTime \/ timer > 0
  /\ clock' = IF clock.sec < MaxTime THEN Time(clock.sec + 1, 0) ELSE clock
  /\ timer' = IF timer > 0 THEN timer - 1 ELSE 0
  /\ wake' = IF d_pc = "wait"
             THEN SelectWake(wake, cancelled, timer <= 1)
             ELSE wake
  /\ UNCHANGED <<cookieVars, reserveVars, clientVars, faultsLeft, storeVars, handlerVars, d_pc, d_id, nextRes, cancelled,
                 restarts, attempted, peekSet, errSeen>>

\* SIGINT / SIGTERM: the signal goroutine calls cancel()
Shutdown ==
  /\ ~cancelled
  /\ cancelled' = TRUE
  /\ wake' = IF d_pc = "wait" THEN SelectWake(wake, TRUE, FALSE) ELSE wake
  /\ UNCHANGED <<cookieVars, reserveVars, clientVars, clock, faultsLeft, storeVars, handlerVars, d_pc, d_id, nextRes, timer,
                 restarts, attempted, peekSet, errSeen>>

\* the process stops at any point and is started again: goroutines and their
\* locals are gone, Redis keeps its keys
Restart ==
  /\ restarts < MaxRestarts
  /\ restarts' = restarts + 1
  /\ h_pc' = [h \in Handlers |-> "idle"]
  /\ h_res' = [h \in Handlers |-> NoRes]
  /\ d_pc' = "top"
  /\ d_id' = NoId
  /\ nextRes' = NoRes
  /\ timer' = 0
  /\ wake' = None
  /\ cancelled' = FALSE
  /\ peekSet' = {}
  /\ UNCHANGED <<cookieVars, reserveVars, clientVars, clock, faultsLeft, storeVars, nreq, accepted, attempted, errSeen>>

Scheduler ==
  \/ LoopTop
  \/ GetNextZRange
  \/ GetNextGet
  \/ CheckDue
  \/ WaitReturn
  \/ ReserveReturn
  \/ DeleteReservationZRem
  \/ DeleteReservationDel

ReserveHandler ==
  \/ \E h \in Handlers : ReserveScheduled(h)
  \/ \E h \in Handlers : SaveReservationSet(h)
  \/ \E h \in Handlers : SaveReservationZAdd(h)

\* the whole program: any number of process lives
Next ==
  \/ ReserveHandler
  \/ Scheduler
  \/ TickNano
  \/ TickSec
  \/ Shutdown
  \/ Restart

Spec == Init /\ [][Next]_vars

\* one process life, the scheduler goroutine and the pipeline call always get
\* to run and time passes
ReserveHandlerRun ==
  \/ \E h \in Handlers : nreq < MaxRunRequests /\ ReserveScheduled(h)
  \/ \E h \in Handlers : SaveReservationSet(h)
  \/ \E h \in Handlers : SaveReservationZAdd(h)

NextRun ==
  \/ ReserveHandlerRun
  \/ Scheduler
  \/ TickNano
  \/ TickSec
  \/ Shutdown

RunSpec == Init /\ [][NextRun]_vars /\ WF_vars(Scheduler) /\ WF_vars(TickSec)

\* one process life without shutdown signal and with a store that answers
\* every command
InitReachable ==
  /\ clock = Time(0, 0)
  /\ faultsLeft = 0
  /\ details = << >>
  /\ pending = << >>
  /\ h_pc = [h \in Handlers |-> "idle"]
  /\ h_res = [h \in Handlers |-> NoRes]
  /\ d_pc = "top"
  /\ d_id = NoId
  /\ nextRes = NoRes
  /\ timer = 0
  /\ cancelled = FALSE
  /\ restarts = 0
  /\ nreq = 0
  /\ attempted = {}
  /\ accepted = {}
  /\ wake = None
  /\ peekSet = {}
  /\ errSeen = FALSE
  /\ a_cookies = << >>
  /\ c_pc = "idle"
  /\ c_maxRetries = 0
  /\ c_hasBody = FALSE
  /\ c_attempt = 0
  /\ c_origCookies = << >>
  /\ c_reqCookies = << >>
  /\ c_sent = << >>
  /\ c_allChallenge = TRUE
  /\ c_result = None
  /\ c_calls = 0
  /\ c_last = NoDoResult
  /\ InitReserve
  /\ InitCookies

NextLive ==
  \/ ReserveHandler
  \/ Scheduler
  \/ TickNano
  \/ TickSec

LiveSpec ==
  /\ InitReachable
  /\ [][NextLive]_vars
  /\ WF_vars(Scheduler)
  /\ WF_vars(TickSec)
  /\ WF_vars(\E h \in Handlers : SaveReservationSet(h))
  /\ WF_vars(\E h \in Handlers : SaveReservationZAdd(h))

\* ------------------------------------------------------- scheduler: claims

\* t is not after u, written out on the fields
NotAfter(t, u) == t.sec < u.sec \/ (t.sec = u.sec /\ t.nsec <= u.nsec)

\* the scheduler hands nextRes to Reserve in this step
AttemptStarts == d_pc = "check" /\ d_pc' = "exec"

Idle == {"top", "zrange", "get", "check"}
Waiting == {"wait"}
Executing == {"exec", "zrem", "del"}

\* C1: a scheduled record is passed to Reserve at most once in its lifetime:
\* no attempt starts for a record that was attempted before
C1_AttemptedAtMostOnce == [][AttemptStarts => nextRes \notin attempted]_vars

\* C2: when the scheduler finishes DeleteReservation after an attempt and goes
\* back to the top of the loop, the record's id is out of the pending set and
\* its detail key is gone
C2_RemovedAfterAttempt ==
  [][(d_pc \in {"zrem", "del"} /\ d_pc' = "top" /\ restarts' = restarts)
       => (nextRes.ID \notin DOMAIN pending' /\ nextRes.ID \notin DOMAIN details')]_vars

\* C3: while Reserve runs for a record, the record's RunTime is not after the
\* clock: no attempt starts before the run instant
C3_NotBeforeRunTime == d_pc = "exec" => NotAfter(nextRes.RunTime, clock)

\* C3 witness: an attempt runs for a record that was created before its run
\* instant, so the scheduler had to let time pass
C3_Witness == d_pc = "exec" /\ After(nextRes.RunTime, nextRes.CreatedAt)

\* C4: whenever an attempt starts for a record, no record that was pending at
\* the ZRANGE that selected it had an earlier RunTime, and a wait is always
\* followed by a new peek, never by an attempt
C4_EarliestFirst ==
  /\ [][AttemptStarts => \A t \in peekSet : NotAfter(nextRes.RunTime, t)]_vars
  /\ [][d_pc = "wait" => d_pc' \in {"wait", "top", "done"}]_vars

\* every record a handler can build in the model
Records ==
  { [ID |-> UnixNano(c), VenueID |-> req.VenueID,
     ReservationTime |-> req.ReservationTime, PartySize |-> req.PartySize,
     TablePreferences |-> req.TablePreferences, AuthToken |-> req.AuthToken,
     RunTime |-> run, CreatedAt |-> c] :
    c \in {Time(sec, n) : sec \in 0..(MaxTime - 1), n \in 0..MaxNsec},
    req \in Requests, run \in RunTimes }

\* the record is in the pending set and GetReservation returns it field by field
Retrievable(r) ==
  /\ r.ID \in DOMAIN pending
  /\ r.ID \in DOMAIN details
  /\ Unmarshal(details[r.ID]) = r

\* C6: in every state, so also after a restart at any point, each record whose
\* SaveReservation succeeded and that was not handed to Reserve yet is pending
\* and is read back with the fields it was saved with
C6_SurvivesRestart == \A r \in accepted \ attempted : Retrievable(r)

\* C7: with no shutdown, a store that answers and terminating pipeline calls,
\* every record whose SaveReservation succeeded is eventually attempted and
\* out of the pending set
C7_EventuallyAttempted ==
  \A r \in Records :
    (r \in accepted) ~> (r \in attempted /\ r.ID \notin DOMAIN pending)

C9_LoopOnlyEndsOnSignal ==
  /\ [](d_pc = "done" => cancelled)
  /\ [][(restarts' = restarts) =>
          /\ (d_pc \in Idle => d_pc' \in Idle \cup Waiting \cup {"exec"} \cup
                                 (IF d_pc = "top" /\ cancelled THEN {"done"} ELSE {}))
          /\ (d_pc \in Waiting => d_pc' \in Waiting \cup {"top"} \cup
                                    (IF cancelled THEN {"done"} ELSE {}))
          /\ (d_pc \in Executing => d_pc' \in Executing \cup {"top"})
          /\ ((~errSeen /\ errSeen') => d_pc' # "done")]_vars

\* C9 witness: after a store error or a failed attempt the scheduler has
\* started another attempt
C9_Witness == errSeen /\ d_pc = "exec" /\ ~cancelled

\* ------------------------------ ScheduledQueue as a sequence of operations

\* GetReservation failed: the key is missing or Redis did not answer
ErrRes == [ID |-> -2]

\* GetNextReservation on a store that answers: nil when the pending set is
\* empty, else the record stored under the first id of the sorted set
GetNextReservation(d, p) ==
  LET id == ZRangeFirst(p)
  IN  IF id = NoId THEN NoRes
      ELSE IF id \in DOMAIN d THEN Unmarshal(d[id])
      ELSE ErrRes

\* SaveReservation with both commands answered
SaveReservation(res) ==
  /\ details' = RedisSet(details, res.ID, Marshal(res))
  /\ pending' = ZAdd(pending, res.ID, Unix(res.RunTime))

\* DeleteReservation with both commands answered
DeleteReservation(id) ==
  /\ pending' = ZRem(pending, id)
  /\ details' = RedisDel(details, id)

QueueRecords ==
  { [ID |-> i, VenueID |-> req.VenueID, ReservationTime |-> req.ReservationTime,
     PartySize |-> req.PartySize, TablePreferences |-> req.TablePreferences,
     AuthToken |-> req.AuthToken, RunTime |-> Time(m * TicksPerMinute, 0),
     CreatedAt |-> Time(0, 0)] :
    i \in 0..MaxQueueId, req \in Requests, m \in 0..MaxMinutes }

notQueueVars == <<clock, faultsLeft, handlerVars, d_pc, d_id, timer, wake, attempted,
                  peekSet, errSeen, cancelled, restarts, clientVars, reserveVars,
                  cookieVars>>

Insert ==
  /\ \E res \in QueueRecords : SaveReservation(res)
  /\ UNCHANGED <<nextRes, notQueueVars>>

Remove ==
  /\ \E id \in DOMAIN pending : DeleteReservation(id)
  /\ UNCHANGED <<nextRes, notQueueVars>>

PeekEarliest ==
  /\ nextRes' = GetNextReservation(details, pending)
  /\ UNCHANGED <<storeVars, notQueueVars>>

QueueNext == Insert \/ Remove \/ PeekEarliest

QueueSpec == Init /\ [][QueueNext]_vars

CookieNames == {"incap_ses_1", "nlbi_1", "_ga"}

HasPrefix(name, prefix) ==
  \/ name = "incap_ses_1" /\ prefix = "incap_ses_"
  \/ name = "nlbi_1" /\ prefix = "nlbi_"

ImpervaPrefixes == {"_incap_", "incap_ses_", "_visid_", "visid_incap_", "nlbi_"}

CookieValues == {"v1", "v2"}

Cookie(n, v) == [name |-> n, value |-> v]

\* Set-Cookie header lists a response can carry
RECURSIVE SeqsUpTo(_, _)
SeqsUpTo(S, n) ==
  IF n = 0 THEN {<< >>}
  ELSE SeqsUpTo(S, n - 1) \cup
       {Append(q, x) : q \in {t \in SeqsUpTo(S, n - 1) : Len(t) = n - 1}, x \in S}

SetCookieLists ==
  SeqsUpTo({Cookie(n, v) : n \in CookieNames, v \in CookieValues}, MaxSetCookie)

Statuses == {200, 403, 404, 500, 503}

Responses ==
  [status : Statuses, xcdn : {"Imperva", ""}, server : {"nginx", ""},
   setCookie : SetCookieLists]

\* token sets LoadCookiesFromStore can put into API.Cookies
StoredCookieSets == {<< >>, <<Cookie("incap_ses_1", "v1")>>}

\* the classification that takes Server: nginx as a signature with any of the
\* three statuses
IsImpervaChallenge_NginxAnyStatus(resp) ==
  /\ resp.status \in {500, 403, 503}
  /\ (resp.xcdn = "Imperva" \/ resp.server = "nginx")

\* isImpervaChallenge
IsImpervaChallenge(resp) ==
  IF resp.status # 500 /\ resp.status # 403 /\ resp.status # 503 THEN FALSE
  ELSE IF resp.xcdn = "Imperva" THEN TRUE
  ELSE IF resp.server = "nginx" /\ resp.status = 500 THEN TRUE
  ELSE FALSE

\* the merge that appends without looking for the name
MergeCookie_AlwaysAppend(cookies, c) == Append(cookies, c)

\* "Add or update cookie": replace the first entry of the same name, else append
MergeCookie(cookies, c) ==
  IF \E i \in 1..Len(cookies) : cookies[i].name = c.name
  THEN LET k == CHOOSE i \in 1..Len(cookies) :
                  /\ cookies[i].name = c.name
                  /\ \A j \in 1..(i - 1) : cookies[j].name # c.name
       IN  [cookies EXCEPT ![k] = c]
  ELSE Append(cookies, c)

IsImpervaCookie(name) == \E pre \in ImpervaPrefixes : HasPrefix(name, pre)

RECURSIVE MergeAll(_, _)
MergeAll(cookies, list) ==
  IF list = << >> THEN cookies
  ELSE MergeAll(IF IsImpervaCookie(Head(list).name)
                THEN MergeCookie(cookies, Head(list)) ELSE cookies,
                Tail(list))

\* extractCookiesFromResponse: the new value of API.Cookies
ExtractCookiesFromResponse(cookies, resp) ==
  IF resp.xcdn = "Imperva" \/ resp.server = "nginx"
  THEN MergeAll(cookies, resp.setCookie)
  ELSE cookies

\* addCookiesToRequest: req.AddCookie appends to the request's Cookie header
AddCookiesToRequest(header, cookies) == header \o cookies

\* the for condition: attempt <= maxRetries
LoopCondition(attempt, maxRetries) == attempt <= maxRetries

\* the retry test one attempt short
RetryAllowed_OneShort(attempt, maxRetries) == attempt + 1 < maxRetries

\* "Retry if we haven't exceeded max retries": attempt < maxRetries
RetryAllowed(attempt, maxRetries) == attempt < maxRetries

notClientVars == <<clock, faultsLeft, storeVars, handlerVars, schedVars, cancelled,
                   restarts, reserveVars, cookieVars>>

\* Reserve loads the venue's tokens, builds the request with them and calls
\* doRequestWithRetry, which saves the headers of the request
CallDoRequestWithRetry ==
  /\ c_pc \in {"idle", "done"}
  /\ c_calls < MaxCalls
  /\ c_calls' = c_calls + 1
  /\ \E loaded \in BOOLEAN, stored \in StoredCookieSets :
       a_cookies' = IF loaded THEN stored ELSE a_cookies
  /\ \E m \in 0..MaxRetriesArg : c_maxRetries' = m
  /\ \E b \in BOOLEAN : c_hasBody' = b
  /\ c_reqCookies' = AddCookiesToRequest(<< >>, a_cookies')
  /\ c_origCookies' = c_reqCookies'
  /\ c_attempt' = 0
  /\ c_sent' = << >>
  /\ c_last' = NoDoResult
  /\ c_allChallenge' = TRUE
  /\ IF LoopCondition(0, c_maxRetries')
     THEN c_pc' = "send" /\ c_result' = None
     ELSE c_pc' = "done" /\ c_result' = "max retries exceeded"
  /\ UNCHANGED notClientVars

\* client.Do(req) sends the request
ClientDo ==
  /\ c_pc = "send"
  /\ c_sent' = Append(c_sent, c_reqCookies)
  /\ c_pc' = "recv"
  /\ UNCHANGED <<a_cookies, c_maxRetries, c_hasBody, c_attempt, c_origCookies,
                 c_reqCookies, c_allChallenge, c_result, c_calls, c_last, notClientVars>>

\* client.Do returns an error
TransportError ==
  /\ c_pc = "recv"
  /\ c_pc' = "done"
  /\ c_result' = "transport error"
  /\ c_allChallenge' = FALSE
  /\ c_last' = DoFailed
  /\ UNCHANGED <<a_cookies, c_maxRetries, c_hasBody, c_attempt, c_origCookies,
                 c_reqCookies, c_sent, c_calls, notClientVars>>

\* client.Do returns a response: classify it, harvest, retry or return
ReceiveResponse ==
  /\ c_pc = "recv"
  /\ \E resp \in Responses :
       /\ c_last' = resp
       /\ IF IsImpervaChallenge(resp)
          THEN /\ a_cookies' = ExtractCookiesFromResponse(a_cookies, resp)
               /\ UNCHANGED c_allChallenge
               /\ IF RetryAllowed(c_attempt, c_maxRetries)
                  THEN /\ c_attempt' = c_attempt + 1
                       /\ IF LoopCondition(c_attempt + 1, c_maxRetries)
                          THEN /\ c_reqCookies' = AddCookiesToRequest(
                                      IF c_hasBody THEN c_origCookies ELSE c_reqCookies,
                                      a_cookies')
                               /\ c_pc' = "send"
                               /\ UNCHANGED c_result
                          ELSE /\ c_pc' = "done"
                               /\ c_result' = "ErrImperva"
                               /\ UNCHANGED c_reqCookies
                  ELSE /\ c_pc' = "done"
                       /\ c_result' = "ErrImperva"
                       /\ UNCHANGED <<c_attempt, c_reqCookies>>
          ELSE /\ c_pc' = "done"
               /\ c_result' = "response"
               /\ c_allChallenge' = FALSE
               /\ UNCHANGED <<a_cookies, c_attempt, c_reqCookies>>
  /\ UNCHANGED <<c_maxRetries, c_hasBody, c_origCookies, c_sent, c_calls, notClientVars>>

ClientNext ==
  \/ CallDoRequestWithRetry
  \/ ClientDo
  \/ TransportError
  \/ ReceiveResponse

ClientSpec == Init /\ [][ClientNext]_vars

\* C10: when the call has returned and every client.Do returned a challenge
\* response, the request was sent once and then maxRetries more times and the
\* result is ErrImperva
C10_RetriesThenChallengeError ==
  (c_pc = "done" /\ c_allChallenge) =>
    /\ c_result = "ErrImperva"
    /\ Len(c_sent) = 1 + c_maxRetries

\* C10 witness: a call with maxRetries = 2 returned after three challenges
C10_Witness ==
  /\ c_pc = "done"
  /\ c_allChallenge
  /\ c_maxRetries = 2
  /\ Len(c_sent) = 3
  /\ c_result = "ErrImperva"

\* The operator ChallengeResponse is a term of the statement below, written
\* from the statement of the classification.
ChallengeResponse(resp) ==
  \/ (resp.status \in {403, 500, 503} /\ resp.xcdn = "Imperva")
  \/ (resp.server = "nginx" /\ resp.status = 500)

\* C31: when client.Do returns a response that is not a challenge, the call
\* returns that response and sends nothing more; when client.Do returns an
\* error, the call returns that error, not ErrImperva, and sends nothing
\* more; a call that has returned sends no request
C31_StopsAtFirstNonChallenge ==
  /\ [][(c_pc = "recv" /\ c_pc' # "recv") =>
          /\ (c_last' # DoFailed /\ ~ChallengeResponse(c_last')) =>
               (c_pc' = "done" /\ c_result' = "response" /\ c_sent' = c_sent)
          /\ c_last' = DoFailed =>
               (c_pc' = "done" /\ c_result' = "transport error" /\ c_sent' = c_sent)]_vars
  /\ [][(c_pc = "done" /\ c_calls' = c_calls) => c_sent' = c_sent]_vars

\* C31 witness: after one challenge, a 403 from nginx without the vendor
\* header was returned although two retries were allowed
C31_Witness ==
  /\ c_pc = "done"
  /\ c_result = "response"
  /\ c_maxRetries = 2
  /\ Len(c_sent) = 2
  /\ c_last.status = 403
  /\ c_last.server = "nginx"
  /\ c_last.xcdn = ""

\* C40: every request that is sent carries each entry of the live token set
\* exactly once, with the value the set holds, and nothing else
C40_LiveTokensOnce ==
  [][Len(c_sent') = Len(c_sent) + 1 =>
       LET r == c_sent'[Len(c_sent')]
       IN  /\ \A i \in 1..Len(a_cookies) :
                /\ Cardinality({j \in 1..Len(r) : r[j].name = a_cookies[i].name}) = 1
                /\ \E j \in 1..Len(r) : r[j] = a_cookies[i]
           /\ \A j \in 1..Len(r) : \E i \in 1..Len(a_cookies) : r[j] = a_cookies[i]]_vars

\* ------------------------------------------------------------------ Reserve

\* the status test that takes only the 5xx statuses for failures
IsCodeFail_ServerOnly(code) == code \div 100 = 5

\* isCodeFail
IsCodeFail(code) == code \div 100 # 2

\* params.VenueID of the model's request, and another venue's id
RequestedVenue == 1
OtherVenue == 2

\* requested instants of the model: 19:00, 19:20 and 23:50 on day 1
T1900 == ParseTimeNYC(Start(1, 19, 0))
T1920 == ParseTimeNYC(Start(1, 19, 20))
T2350 == ParseTimeNYC(Start(1, 23, 50))

\* sequences of 1..n different elements of S
DistinctSeqs(S, n) ==
  {q \in SeqsUpTo(S, n) : Len(q) >= 1 /\ \A a, b \in 1..Len(q) : a # b => q[a] # q[b]}

\* params.ReservationTimes: at least one instant (Reserve indexes element 0)
InstantLists == DistinctSeqs({T1900, T1920, T2350}, MaxInstants)

\* params.TableTypes: the handler's table preferences as they were sent
TableTypeLists == {<< >>} \cup DistinctSeqs({FilterLower, FilterPatio}, MaxTableTypes)

\* slots of the find responses given to Reserve
ReserveSlots ==
  { Slot(Start(1, 18, 45), TRUE, IndoorDiningRoom, TRUE),
    Slot(Start(1, 18, 50), TRUE, IndoorDiningRoom, TRUE),
    Slot(Start(1, 18, 50), TRUE, IndoorDiningRoom, FALSE),
    Slot(Start(1, 19, 0), TRUE, IndoorDiningRoom, TRUE),
    Slot(Start(1, 19, 0), TRUE, IndoorDiningRoom, FALSE),
    Slot(Start(1, 19, 0), TRUE, Patio, TRUE),
    Slot(Start(1, 19, 20), TRUE, IndoorDiningRoom, TRUE),
    Slot(Start(1, 19, 20), TRUE, Patio, TRUE),
    Slot(Start(1, 19, 35), TRUE, IndoorDiningRoom, TRUE),
    Slot(Start(2, 0, 10), TRUE, IndoorDiningRoom, TRUE) }

ReserveSlotLists == SeqsUpTo(ReserveSlots, MaxSlots)

\* one element of results.venues: venue.id.resy and the slots key
Venue(id, hasSlots, slots) == [id |-> id, hasSlots |-> hasSlots, slots |-> slots]

\* the body of a find response: kind is how far it can be read
FindBody(kind, venues) == [kind |-> kind, venues |-> venues]

FindBodies ==
  {FindBody(kind, << >>) : kind \in {"readerr", "badjson", "noresults", "novenues", "ok"}}
  \cup {FindBody("noslotskey", <<Venue(RequestedVenue, FALSE, << >>)>>)}
  \cup {FindBody("ok", <<Venue(v, TRUE, sl)>>) :
          v \in {RequestedVenue, OtherVenue}, sl \in ReserveSlotLists}
  \cup {FindBody("ok", <<Venue(OtherVenue, TRUE,
                               <<Slot(Start(1, 19, 0), TRUE, Patio, TRUE)>>),
                         Venue(RequestedVenue, TRUE, sl)>>) :
          sl \in ReserveSlotLists}

\* what doRequestWithRetry returns for the find request: an error of
\* client.Do, ErrImperva, or a response that is no challenge
FindOutcomes ==
  {[ret |-> r, status |-> 0, body |-> FindBody("readerr", << >>)] :
     r \in {"transport error", "ErrImperva"}}
  \cup {[ret |-> "response", status |-> st, body |-> b] :
          st \in {200, 403, 404}, b \in FindBodies}

\* status line and headers of the detail and book responses
StepHeads ==
  { [status |-> 200, xcdn |-> "", server |-> ""],
    [status |-> 402, xcdn |-> "", server |-> ""],
    [status |-> 403, xcdn |-> "Imperva", server |-> ""],
    [status |-> 500, xcdn |-> "", server |-> ""] }

\* outcomes of client.Do and io.ReadAll at the detail or book step
StepOutcomes(step, bodies) ==
  {Response(step, TRUE, 0, "", "", "")}
  \cup {Response(step, FALSE, h.status, h.xcdn, h.server, b) :
          h \in StepHeads, b \in bodies}

DetailBodies == {"readerr", "badjson", "notoken", "ok"}
BookBodies == {"readerr", "badjson", "noid", "id"}

\* the first block is read whatever its venue id
SelectVenue_First(venues, venueID) == venues[1]

\* the venue block Reserve reads the slots from: the first block with the
\* requested id, else the first block
SelectVenue(venues, venueID) ==
  IF \E n \in 1..Len(venues) : venues[n].id = venueID
  THEN venues[CHOOSE n \in 1..Len(venues) :
                /\ venues[n].id = venueID
                /\ \A m \in 1..(n - 1) : venues[m].id # venueID]
  ELSE venues[1]

\* the error Reserve returns after the find call, or NoResult when it goes on
\* to the slot list
FindError(out, venueID) ==
  IF out.ret = "transport error" THEN Result("error", "find", 0, 0)
  ELSE IF out.ret = "ErrImperva" THEN Result("ErrImperva", "find", 0, 0)
  ELSE IF out.body.kind = "readerr" THEN Result("error", "find", 0, 0)
  ELSE IF IsCodeFail(out.status) THEN Result("NetworkError", "find", out.status, 0)
  ELSE IF out.body.kind = "badjson" THEN Result("error", "find", 0, 0)
  ELSE IF out.body.kind \in {"noresults", "novenues"}
       THEN Result("NetworkError", "find", 0, 0)
  ELSE IF Len(out.body.venues) = 0 THEN Result("ErrNoOffer", "find", 0, 0)
  ELSE IF ~SelectVenue(out.body.venues, venueID).hasSlots
       THEN Result("NetworkError", "find", 0, 0)
  ELSE NoResult

notReserveVars == <<clock, faultsLeft, storeVars, handlerVars, schedVars, cancelled,
                    restarts, clientVars, cookieVars>>

HasTableTypePreference == Len(r_types) > 0

\* the outer loop without its second disjunct: no pass when no table type is given
OuterCondition_NeverUnfiltered(k) == k < Len(r_types)

\* "k < len(params.TableTypes) || (!hasTableTypePreference && k == 0)"
OuterCondition(k) == k < Len(r_types) \/ (~HasTableTypePreference /\ k = 0)

CurrentTableType == IF HasTableTypePreference THEN r_types[r_k + 1] ELSE << >>

\* Reserve returns
Return(res) ==
  /\ r_pc' = "done"
  /\ r_result' = res

\* a "continue" that leaves the loop indices alone: the same pair is searched again
Continue_SamePair ==
  /\ r_pc' = "pair"
  /\ r_i' = r_i
  /\ r_k' = r_k
  /\ r_best' = NoBest
  /\ r_cfg' = NoToken
  /\ UNCHANGED r_result

\* "continue" in the loop over the instants: i++, and k++ after the last one
Continue ==
  /\ r_pc' = "pair"
  /\ r_i' = IF r_i + 1 < Len(r_times) THEN r_i + 1 ELSE 0
  /\ r_k' = IF r_i + 1 < Len(r_times) THEN r_k ELSE r_k + 1
  /\ r_best' = NoBest
  /\ r_cfg' = NoToken
  /\ UNCHANGED r_result

\* Reserve is called and sends the find request through doRequestWithRetry
CallReserve ==
  /\ r_pc = "idle"
  /\ \E times \in InstantLists, types \in TableTypeLists :
       /\ r_times' = times
       /\ r_types' = types
  /\ r_pc' = "find"
  /\ UNCHANGED <<r_slots, r_k, r_i, r_best, r_cfg, r_result, r_resp, r_sent, r_chal,
                 r_pairs, notReserveVars>>

\* the find call returns; Reserve reads the venues and picks the slot list
FindReturn ==
  /\ r_pc = "find"
  /\ \E out \in FindOutcomes :
       /\ r_resp' = Response("find", out.ret # "response", out.status, "", "",
                             out.body.kind)
       /\ r_chal' = (r_chal \/ out.ret = "ErrImperva")
       /\ IF FindError(out, RequestedVenue) # NoResult
          THEN /\ Return(FindError(out, RequestedVenue))
               /\ UNCHANGED r_slots
          ELSE /\ r_slots' = SelectVenue(out.body.venues, RequestedVenue).slots
               /\ r_pc' = "pair"
               /\ UNCHANGED r_result
  /\ r_k' = 0
  /\ r_i' = 0
  /\ UNCHANGED <<r_times, r_types, r_best, r_cfg, r_sent, r_pairs, notReserveVars>>

\* the config token of the detail request: bestSlotConfigToken, or when that is
\* empty the token of bestSlot; NoToken when bestSlot has none either
ConfigToken(best, slots) ==
  IF best.token # NoToken THEN best.token
  ELSE IF slots[best.index + 1].hasToken THEN slots[best.index + 1].token
  ELSE NoToken

\* a request of the detail or book step: the slot the config token belongs to,
\* the start instant of bestSlot and the requested instant of the pair
Request(step, cfg, slotTime, currentTime) ==
  [step |-> step, cfg |-> cfg, slotTime |-> slotTime, currentTime |-> currentTime]

\* one call of the slot search: whether a table type filters, the table type
\* and the requested instant
Pair(filtered, tableType, instant) ==
  [filtered |-> filtered, tableType |-> tableType, instant |-> instant]

\* one pass of the loops: the loop test, the slot search of the pair, and the
\* detail request for the slot found
SearchSlots ==
  /\ r_pc = "pair"
  /\ r_resp' = NoResponse
  /\ r_pairs' = IF OuterCondition(r_k)
                THEN Append(r_pairs, Pair(HasTableTypePreference, CurrentTableType,
                                          r_times[r_i + 1]))
                ELSE r_pairs
  /\ IF ~OuterCondition(r_k)
     THEN /\ Return(Result("ErrNoTable", "", 0, 0))
          /\ UNCHANGED <<r_k, r_i, r_best, r_cfg, r_sent>>
     ELSE LET best == Match(r_slots, r_times[r_i + 1], HasTableTypePreference,
                            CurrentTableType)
          IN  IF best.index >= 0 /\ ConfigToken(best, r_slots) # NoToken
              THEN /\ r_best' = best
                   /\ r_cfg' = ConfigToken(best, r_slots)
                   /\ r_sent' = r_sent \cup
                        {Request("detail", ConfigToken(best, r_slots), best.time,
                                 r_times[r_i + 1])}
                   /\ r_pc' = "detail"
                   /\ UNCHANGED <<r_k, r_i, r_result>>
              ELSE /\ Continue
                   /\ UNCHANGED r_sent
  /\ UNCHANGED <<r_times, r_types, r_slots, r_chal, notReserveVars>>

\* the detail response arrives; on a book token the book request is sent
DetailReturn ==
  /\ r_pc = "detail"
  /\ \E resp \in StepOutcomes("detail", DetailBodies) :
       /\ r_resp' = resp
       /\ r_chal' = (r_chal \/ (~resp.err /\ IsImpervaChallenge(resp)))
       /\ IF resp.err
          THEN Continue /\ UNCHANGED r_sent
          ELSE IF IsCodeFail(resp.status)
          THEN IF resp.body = "readerr"
               THEN Continue /\ UNCHANGED r_sent
               ELSE /\ Return(Result("NetworkError", "detail", resp.status, 0))
                    /\ UNCHANGED <<r_k, r_i, r_best, r_cfg, r_sent>>
          ELSE IF resp.body = "readerr"
          THEN Continue /\ UNCHANGED r_sent
          ELSE IF resp.body = "badjson"
          THEN /\ Return(Result("error", "detail", 0, 0))
               /\ UNCHANGED <<r_k, r_i, r_best, r_cfg, r_sent>>
          ELSE IF resp.body = "notoken"
          THEN Continue /\ UNCHANGED r_sent
          ELSE /\ r_pc' = "book"
               /\ r_sent' = r_sent \cup
                    {Request("book", r_cfg, r_best.time, r_times[r_i + 1])}
               /\ UNCHANGED <<r_k, r_i, r_best, r_cfg, r_result>>
  /\ UNCHANGED <<r_times, r_types, r_slots, r_pairs, notReserveVars>>

\* a book response without a failure status whose JSON has reservation_id
BookConfirmed(resp) ==
  ~resp.err /\ ~IsCodeFail(resp.status) /\ resp.body = "id"

\* a failed book step ends Reserve
BookFailure_Abort ==
  /\ Return(Result("NetworkError", "book", 0, 0))
  /\ UNCHANGED <<r_k, r_i, r_best, r_cfg>>

\* every failure of the book step is a "continue"
BookFailure == Continue

\* the book response arrives
BookReturn ==
  /\ r_pc = "book"
  /\ \E resp \in StepOutcomes("book", BookBodies) :
       /\ r_resp' = resp
       /\ r_chal' = (r_chal \/ (~resp.err /\ IsImpervaChallenge(resp)))
       /\ IF BookConfirmed(resp)
          THEN /\ Return(Result("ok", "book", resp.status, r_best.time))
               /\ UNCHANGED <<r_k, r_i, r_best, r_cfg>>
          ELSE BookFailure
  /\ UNCHANGED <<r_times, r_types, r_slots, r_sent, r_pairs, notReserveVars>>

ReserveNext ==
  \/ CallReserve
  \/ FindReturn
  \/ SearchSlots
  \/ DetailReturn
  \/ BookReturn

ReserveSpec == Init /\ [][ReserveNext]_vars

\* ------------------------------------------- the slot search as a function

MatchStarts ==
  { Start(1, 18, 30), Start(1, 18, 45), Start(1, 19, 0), Start(1, 19, 15),
    Start(1, 19, 31), Start(2, 0, 10), Start(2, 19, 0) }

MatchSlots ==
  {Slot(st, TRUE, l, tk) : st \in MatchStarts, l \in {IndoorDiningRoom, Patio},
                           tk \in BOOLEAN}
  \cup {Slot(st, FALSE, << >>, tk) : st \in MatchStarts, tk \in BOOLEAN}

MatchSlotLists == SeqsUpTo(MatchSlots, MaxSlots)

MatchFilters == {<< >>, <<FilterLower>>, <<FilterCapital>>, <<FilterUpper>>, <<FilterPatio>>}

\* the slot search of one pair on a slot list, an instant and a table type
SlotMatcher ==
  /\ r_pc = "idle"
  /\ \E slots \in MatchSlotLists, t \in {T1900, T2350}, types \in MatchFilters :
       /\ r_slots' = slots
       /\ r_times' = <<t>>
       /\ r_types' = types
       /\ r_best' = Match(slots, t, Len(types) > 0,
                          IF Len(types) > 0 THEN types[1] ELSE << >>)
  /\ r_pc' = "matched"
  /\ UNCHANGED <<r_k, r_i, r_cfg, r_result, r_resp, r_sent, r_chal, r_pairs, notReserveVars>>

MatchSpec == Init /\ [][SlotMatcher]_vars

\* ------------------------------------------------------------ Reserve: claims

\* the requested instant and the table type of the current pair
CurrentTime == r_times[r_i + 1]

\* The operators from Kept to Least are the terms of the statements below,
\* written from the statements and not from Reserve's code.

\* the slot's label contains the table type of the pair, letter case ignored
\* on both sides; without table types every slot is kept
Kept(slot) ==
  Len(r_types) = 0
  \/ (slot.hasType /\ Contains(ToLower(slot.type), ToLower(r_types[r_k + 1])))

\* the slot's start has the local calendar date of the requested instant
OnTargetDate(slot) == slot.start.date = LocalDate(CurrentTime)

\* the slot's start has the local hour and minute of the requested instant
ExactTime(slot) ==
  /\ slot.start.hour = LocalHour(CurrentTime)
  /\ slot.start.minute = LocalMinute(CurrentTime)

\* minutes between the slot's start and the requested instant
Distance(slot) ==
  AbsDiff(slot.start.date * MinutesPerDay + slot.start.hour * MinutesPerHour
            + slot.start.minute,
          CurrentTime - NYCOffset)

Qualifying == {j \in 1..Len(r_slots) : OnTargetDate(r_slots[j]) /\ Kept(r_slots[j])}

ExactMatches == {j \in Qualifying : ExactTime(r_slots[j])}

Least(S) == CHOOSE x \in S : \A y \in S : x <= y

\* C11: when a challenge response was left unresolved at the find, detail or
\* book step, Reserve returns ErrImperva
C11_ChallengeReported == (r_pc = "done" /\ r_chal) => r_result.kind = "ErrImperva"

\* C13: when the list has a slot on the target date that passes the table type
\* filter and has the target's hour and minute, the search returns the first
\* such slot of the list as an exact match
C13_ExactMatchFirst ==
  (r_pc = "matched" /\ ExactMatches # {}) =>
    /\ r_best.exact
    /\ r_best.index + 1 = Least(ExactMatches)

\* C14: when the list has no exact match, the search returns the first of the
\* qualifying slots with the smallest distance from the target if that
\* distance is at most 30 minutes, and no slot otherwise
C14_ClosestWithinWindow ==
  (r_pc = "matched" /\ ExactMatches = {}) =>
    LET near == {j \in Qualifying : Distance(r_slots[j]) <= 30}
        closest == {j \in near :
                      \A x \in near : Distance(r_slots[j]) <= Distance(r_slots[x])}
    IN  IF near = {} THEN r_best.index = -1
        ELSE r_best.index + 1 = Least(closest)

\* C16: a list of one slot at the target's date, hour and minute yields that
\* slot exactly when there is no table type or the slot's label contains the
\* table type with letter case ignored on both sides
C16_FilterIgnoresCase ==
  (r_pc = "matched" /\ Len(r_slots) = 1 /\ ExactMatches \cup {1} = {1}
     /\ OnTargetDate(r_slots[1]) /\ ExactTime(r_slots[1])) =>
    (r_best.index = 0 <=> Kept(r_slots[1]))

\* the find response of the end-to-end scenario: one requested instant 19:00,
\* no table type, slots at 18:45 and 19:20 on the requested date
C12_Scenario ==
  /\ r_times = <<T1900>>
  /\ r_types = << >>
  /\ Len(r_slots) = 2
  /\ {r_slots[1].start, r_slots[2].start} = {Start(1, 18, 45), Start(1, 19, 20)}

\* the last exchange was a book request answered with status 200 and a
\* reservation_id
BookSucceeded ==
  /\ r_resp.step = "book"
  /\ ~r_resp.err
  /\ r_resp.status = 200
  /\ r_resp.body = "id"

C15_SameDateWithinWindow ==
  \A q \in r_sent :
    /\ LocalDate(q.slotTime) = LocalDate(q.currentTime)
    /\ AbsDiff(q.slotTime, q.currentTime) <= 30
    /\ q.cfg.date = LocalDate(q.currentTime)
    /\ AbsDiff(ParseInLocation(q.cfg), q.currentTime) <= 30

\* C15 witness: a request was sent although the list holds the slot at 00:10
\* of the next day, 20 minutes after the requested instant 23:50
C15_Witness ==
  /\ r_sent # {}
  /\ \E n \in 1..Len(r_times) : r_times[n] = T2350
  /\ \E j \in 1..Len(r_slots) : r_slots[j].start = Start(2, 0, 10)

\* C17: when the find response is read and has no venue block, or the slot
\* list of the selected block is empty, Reserve returns ErrNoOffer and has sent
\* no detail or book request
C17_NoOfferWithoutSlots ==
  /\ (r_pc = "done" /\ r_resp.step = "find" /\ ~r_resp.err /\ r_resp.status = 200
        /\ r_resp.body = "ok") =>
       (r_result.kind = "ErrNoOffer" /\ r_sent = {})
  /\ (r_pc = "done" /\ r_result.step # "find" /\ r_slots = << >>) =>
       (r_result.kind = "ErrNoOffer" /\ r_sent = {})

\* C18: when the loops over the table types and instants have run out, Reserve
\* returns ErrNoTable; and when the only slot offered is at 19:35 for the
\* requested instant 19:00, no detail or book request is sent and Reserve
\* returns ErrNoTable
C18_NoTableWhenExhausted ==
  /\ (r_pc = "done" /\ ~OuterCondition(r_k)) => r_result.kind = "ErrNoTable"
  /\ (r_times = <<T1900>> /\ Len(r_slots) = 1 /\ r_slots[1].start = Start(1, 19, 35)) =>
       /\ r_sent = {}
       /\ r_pc = "done" => r_result.kind = "ErrNoTable"

\* C18 witness: Reserve ended with the only slot at 19:35 for 19:00
C18_Witness ==
  /\ r_pc = "done"
  /\ r_times = <<T1900>>
  /\ Len(r_slots) = 1
  /\ r_slots[1].start = Start(1, 19, 35)
  /\ r_result.kind = "ErrNoTable"

\* C19: the book step ends Reserve only with a confirmed booking: after a
\* transport error, a failure status (402 or another), an unreadable body or a
\* body without reservation_id the pipeline is at the next pair with no result
C19_BookFailureContinues ==
  [][(r_pc = "book" /\ r_pc' # "book") =>
       IF ~r_resp'.err /\ r_resp'.status = 200 /\ r_resp'.body = "id"
       THEN r_pc' = "done" /\ r_result'.kind = "ok"
       ELSE r_pc' = "pair" /\ r_result' = r_result]_vars

\* C19 witness: Reserve returned a confirmed booking after the book request of
\* an earlier pair had failed
C19_Witness ==
  /\ r_pc = "done"
  /\ r_result.kind = "ok"
  /\ \E q \in r_sent : q.step = "book" /\ q.currentTime # CurrentTime

\* C20: Reserve returns a reservation exactly when a book response with a
\* success status carries reservation_id, and the instant returned is the
\* start of the slot whose config token was booked
C20_SuccessIsConfirmedSlot ==
  /\ (r_pc = "done" /\ r_result.kind = "ok") =>
       /\ BookSucceeded
       /\ r_result.time = ParseInLocation(r_cfg)
  /\ BookSucceeded => (r_pc = "done" /\ r_result.kind = "ok")

C28_IdsUnique ==
  \A r1 \in accepted : \A r2 \in accepted : r1 # r2 => r1.ID # r2.ID

\* ------------------------------------ isImpervaChallenge as a function

ClassifyStatuses == {200, 201, 204, 301, 400, 401, 402, 403, 404, 429, 500, 502, 503}

\* responses by status, X-Cdn header and Server header
ClassifyResponses ==
  [status : ClassifyStatuses, xcdn : {"Imperva", "imperva", "Cloudflare", ""},
   server : {"nginx", "Apache", ""}, setCookie : {<< >>}]

notCookieVars == <<clock, faultsLeft, storeVars, handlerVars, schedVars, cancelled,
                   restarts, clientVars, reserveVars, callVars>>

\* isImpervaChallenge(resp) is called
Classify ==
  /\ fn_pc = "idle"
  /\ \E resp \in ClassifyResponses :
       /\ fn_resp' = resp
       /\ fn_out' = IsImpervaChallenge(resp)
  /\ fn_pc' = "classified"
  /\ UNCHANGED <<fn_cookies, hours, cookieData, refreshVars, saved, importVars,
                 notCookieVars>>

ClassifySpec == Init /\ [][Classify]_vars

\* C29: a response is classified as a challenge exactly when its status is
\* 403, 500 or 503 and X-Cdn is Imperva, or Server is nginx and the status is
\* 500; with any other status it is not a challenge
C29_ChallengeClassification ==
  fn_pc = "classified" =>
    /\ fn_out <=> \/ (fn_resp.status \in {403, 500, 503} /\ fn_resp.xcdn = "Imperva")
                  \/ (fn_resp.server = "nginx" /\ fn_resp.status = 500)
    /\ fn_resp.status \notin {403, 500, 503} => ~fn_out

\* C29 witness: a 500 from nginx without X-Cdn was classified as a challenge
C29_Witness ==
  /\ fn_pc = "classified"
  /\ fn_resp.status = 500
  /\ fn_resp.server = "nginx"
  /\ fn_resp.xcdn = ""
  /\ fn_out = TRUE

\* ------------------------------ extractCookiesFromResponse as a function

AllCookies == {Cookie(n, v) : n \in CookieNames, v \in CookieValues}

\* API.Cookies before the response
LiveSets == SeqsUpTo(AllCookies, MaxLive)

\* the responses harvested: two challenges and one that is none
HarvestResponses ==
  {[status |-> h[1], xcdn |-> h[2], server |-> h[3], setCookie |-> sc] :
     h \in {<<403, "Imperva", "">>, <<500, "", "nginx">>, <<200, "", "">>},
     sc \in SeqsUpTo(AllCookies, MaxHarvest)}

\* doRequestWithRetry receives a response and harvests it when it is a challenge
Harvest ==
  /\ fn_pc = "idle"
  /\ \E live \in LiveSets, resp \in HarvestResponses :
       /\ fn_cookies' = live
       /\ fn_resp' = resp
       /\ fn_out' = IF IsImpervaChallenge(resp)
                    THEN ExtractCookiesFromResponse(live, resp)
                    ELSE live
  /\ fn_pc' = "merged"
  /\ UNCHANGED <<hours, cookieData, refreshVars, saved, importVars, notCookieVars>>

MergeSpec == Init /\ [][Harvest]_vars

\* The operators from KnownPrefix to LastHarvested are the terms of the
\* statement below, written from the statement.

\* the name starts with a known anti-bot prefix
KnownPrefix(name) ==
  \E pre \in {"_incap_", "incap_ses_", "_visid_", "visid_incap_", "nlbi_"} :
    HasPrefix(name, pre)

NamesOf(q) == {q[i].name : i \in 1..Len(q)}

UniqueNames(q) == \A i \in 1..Len(q) : \A j \in 1..Len(q) : q[i].name = q[j].name => i = j

\* the Set-Cookie entries of the response with a known prefix
HarvestedNames == {n \in NamesOf(fn_resp.setCookie) : KnownPrefix(n)}

\* the last Set-Cookie entry of the response with that name
LastHarvested(name) ==
  fn_resp.setCookie[CHOOSE j \in 1..Len(fn_resp.setCookie) :
                      /\ fn_resp.setCookie[j].name = name
                      /\ \A x \in (j + 1)..Len(fn_resp.setCookie) :
                           fn_resp.setCookie[x].name # name]

\* C30: after a challenge response, the entries of the live token set keep
\* their places, an entry is changed only into a harvested entry of the same
\* name with a known prefix, every new entry is a harvested entry with a known
\* prefix, and when the names were unique before: each harvested name already
\* present has its entry replaced, each other harvested name is appended once,
\* and the names are unique after the merge
C30_MergeByName ==
  (fn_pc = "merged" /\ IsImpervaChallenge(fn_resp)) =>
    /\ Len(fn_out) >= Len(fn_cookies)
    /\ \A i \in 1..Len(fn_cookies) :
         /\ fn_out[i].name = fn_cookies[i].name
         /\ fn_cookies[i].name \notin HarvestedNames => fn_out[i] = fn_cookies[i]
         /\ fn_out[i] # fn_cookies[i] => fn_out[i] = LastHarvested(fn_cookies[i].name)
    /\ \A i \in (Len(fn_cookies) + 1)..Len(fn_out) :
         /\ fn_out[i].name \in HarvestedNames \ NamesOf(fn_cookies)
         /\ fn_out[i] = LastHarvested(fn_out[i].name)
    /\ NamesOf(fn_out) = NamesOf(fn_cookies) \cup HarvestedNames
    /\ UniqueNames(fn_cookies) =>
         /\ \A i \in 1..Len(fn_cookies) :
              fn_cookies[i].name \in HarvestedNames =>
                fn_out[i] = LastHarvested(fn_cookies[i].name)
         /\ UniqueNames(fn_out)

\* C30 witness: one response replaced an entry, appended another and left the
\* entry with an unknown prefix alone
C30_Witness ==
  /\ fn_pc = "merged"
  /\ IsImpervaChallenge(fn_resp)
  /\ Len(fn_cookies) = 2
  /\ UniqueNames(fn_cookies)
  /\ Len(fn_out) = 3
  /\ \E i \in 1..2 : fn_out[i] # fn_cookies[i]
  /\ \E i \in 1..2 : fn_cookies[i].name = "_ga" /\ fn_out[i] = fn_cookies[i]

\* ------------------------------------------- TokenStore and handleCookieRefresh
\* Time is counted in hours. A Redis command takes no time; a FetchCookies
\* call (8 seconds to about 3 minutes) ends within the hour or in the next.

CookieRefreshInterval == 6
RefreshThreshold == 2
RefreshTTL == 24
DefaultImportTTL == 24

KnownVenueIDs == [n \in 1..MaxVenues |-> n]

\* a key without expiry, and the TTL Redis reports for it and for a missing key
NoExpiry == -1
TTLNoExpiry == -1
TTLNoKey == -2

\* the key cookies:<venue>: the CookieData document and the key's expiry
CookieDataOf(cookies, userAgent, expiresAt, expire) ==
  [Cookies |-> cookies, UserAgent |-> userAgent, ExpiresAt |-> expiresAt,
   expire |-> expire]

\* SaveCookies: SET cookies:<venue> <json> with the TTL; the client sends an
\* expiry only for a positive duration
SaveCookies(d, venueID, cookies, userAgent, ttl) ==
  RedisSet(d, venueID,
           CookieDataOf(cookies, userAgent, hours + ttl,
                        IF ttl > 0 THEN hours + ttl ELSE NoExpiry))

\* CookieExists: EXISTS cookies:<venue>
CookieExists(d, venueID) == venueID \in DOMAIN d

\* GetCookieTTL: TTL cookies:<venue>, negative when the key is gone
GetCookieTTL(d, venueID) ==
  IF venueID \notin DOMAIN d THEN TTLNoKey
  ELSE IF d[venueID].expire = NoExpiry THEN TTLNoExpiry
  ELSE d[venueID].expire - hours

\* Redis drops the keys whose TTL has run out
Expire(d, now) ==
  [v \in {x \in DOMAIN d : d[x].expire = NoExpiry \/ d[x].expire > now} |-> d[v]]

\* a refresh only below the threshold
NeedsRefresh_BelowThreshold(exists, ttl) == ~exists \/ ttl < RefreshThreshold

\* refreshCookiesIfNeeded goes on to FetchCookies unless ttl > 2 * time.Hour
NeedsRefresh(exists, ttl) == ~exists \/ ~(ttl > RefreshThreshold)

DefaultUserAgent == "Mozilla/5.0"

\* what the headless browser brings back for a venue
FetchedCookies(venueID) ==
  <<Cookie("incap_ses_1", IF venueID = 1 THEN "v1" ELSE "v2")>>

notTokenVars == <<clock, storeVars, handlerVars, schedVars, restarts, clientVars,
                  reserveVars, fnVars, callVars>>

\* with faults, a command can fail as in the reservation store
CmdOutcomesIf(faults) == IF faults THEN CmdOutcomes(cancelled) ELSE {TRUE}

\* handleCookieRefresh starts and calls refreshAllCookies
RefreshStart ==
  /\ f_pc = "startup"
  /\ f_pc' = "range"
  /\ f_i' = 0
  /\ f_checked' = << >>
  /\ UNCHANGED <<f_left, f_nextTick, f_tickReady, hours, cookieData, saved, importVars,
                 faultsLeft, cancelled, notTokenVars>>

\* refreshAllCookies returns; after the first pass handleCookieRefresh creates
\* the ticker
PassReturn ==
  /\ f_pc' = "select"
  /\ f_nextTick' = IF f_nextTick = NoTicker THEN hours + CookieRefreshInterval
                   ELSE f_nextTick
  /\ UNCHANGED <<f_i, f_left, f_tickReady, f_checked, faultsLeft>>

\* the range loop that ends the pass at the first venue that failed
NextVenue_StopOnFailure(failed) == IF failed THEN Len(KnownVenueIDs) ELSE f_i + 1

\* refreshCookiesIfNeeded returns, with or without a failure: the range loop
\* goes to the next venue
NextVenue(failed) == f_i + 1

\* one turn of the range loop: the select on ctx.Done, then
\* refreshCookiesIfNeeded up to the call of FetchCookies
RangeStep(faults) ==
  /\ f_pc = "range"
  /\ IF f_i >= Len(KnownVenueIDs) \/ cancelled
     THEN PassReturn
     ELSE LET venueID == KnownVenueIDs[f_i + 1]
              exists == CookieExists(cookieData, venueID)
              ttl == GetCookieTTL(cookieData, venueID)
          IN  /\ f_checked' = Append(f_checked, venueID)
              /\ \E okExists \in CmdOutcomesIf(faults), okTTL \in CmdOutcomesIf(faults) :
                   IF ~okExists \/ (exists /\ ~okTTL)
                   THEN /\ faultsLeft' = FaultsAfter(FALSE, cancelled)
                        /\ f_i' = NextVenue(TRUE)
                        /\ UNCHANGED <<f_pc, f_left>>
                   ELSE IF NeedsRefresh(exists, ttl)
                   THEN /\ f_pc' = "fetch"
                        /\ \E d \in 0..MaxFetchHours : f_left' = d
                        /\ UNCHANGED <<f_i, faultsLeft>>
                   ELSE /\ f_i' = NextVenue(FALSE)
                        /\ UNCHANGED <<f_pc, f_left, faultsLeft>>
              /\ UNCHANGED <<f_nextTick, f_tickReady>>
  /\ UNCHANGED <<hours, cookieData, saved, importVars, cancelled, notTokenVars>>

\* FetchCookies returns and, on success, SaveCookies is called
FetchReturn(outcomes, faults) ==
  /\ f_pc = "fetch"
  /\ f_left = 0
  /\ LET venueID == KnownVenueIDs[f_i + 1]
     IN  \E res \in outcomes, ok \in CmdOutcomesIf(faults) :
           IF res = "ok" /\ ok
           THEN /\ cookieData' = SaveCookies(cookieData, venueID, FetchedCookies(venueID),
                                             DefaultUserAgent, RefreshTTL)
                /\ saved' = saved \cup {venueID}
                /\ f_i' = NextVenue(FALSE)
                /\ UNCHANGED faultsLeft
           ELSE /\ faultsLeft' = IF res = "ok" THEN FaultsAfter(FALSE, cancelled)
                                 ELSE faultsLeft
                /\ f_i' = NextVenue(TRUE)
                /\ UNCHANGED <<cookieData, saved>>
  /\ f_pc' = "range"
  /\ UNCHANGED <<f_left, f_nextTick, f_tickReady, f_checked, hours, importVars,
                 cancelled, notTokenVars>>

\* the cases of the select of handleCookieRefresh that are ready
SelectCases == (IF cancelled THEN {"done"} ELSE {}) \cup (IF f_tickReady THEN {"tick"} ELSE {})

\* the select of handleCookieRefresh takes one of the ready cases
Select ==
  /\ f_pc = "select"
  /\ \E case \in SelectCases :
       IF case = "done"
       THEN /\ f_pc' = "done"
            /\ UNCHANGED <<f_i, f_tickReady, f_checked>>
       ELSE /\ f_pc' = "range"
            /\ f_i' = 0
            /\ f_checked' = << >>
            /\ f_tickReady' = FALSE
  /\ UNCHANGED <<f_left, f_nextTick, hours, cookieData, saved, importVars, faultsLeft,
                 cancelled, notTokenVars>>

\* the refresh goroutine is waiting: for FetchCookies, for the select, or over
RefreshBlocked ==
  \/ f_pc = "fetch" /\ f_left > 0
  \/ f_pc = "select" /\ SelectCases = {}
  \/ f_pc = "done"

\* an hour passes: keys expire, the ticker ticks into its channel of size one
HourPasses(lastHour) ==
  /\ hours < lastHour
  /\ RefreshBlocked
  /\ hours' = hours + 1
  /\ f_left' = IF f_left > 0 THEN f_left - 1 ELSE 0
  /\ cookieData' = Expire(cookieData, hours + 1)
  /\ f_tickReady' = (f_tickReady \/ f_nextTick = hours + 1)
  /\ f_nextTick' = IF f_nextTick = hours + 1 THEN f_nextTick + CookieRefreshInterval
                   ELSE f_nextTick
  /\ UNCHANGED <<f_pc, f_i, f_checked, saved, importVars, faultsLeft, cancelled,
                 notTokenVars>>

\* ------------------------------------------------- /admin/cookies/import

\* Config.ValidateAdminToken
ValidateAdminToken(adminToken, token) == adminToken # "" /\ token = adminToken

\* validateAdminToken; header is strings.SplitN(authHeader, " ", 2), << >> when
\* there is no Authorization header
ValidateRequest(req) ==
  IF req.adminToken = ""
  THEN req.query # "" /\ ValidateAdminToken(req.adminToken, req.query)
  ELSE IF req.header = << >>
  THEN ValidateAdminToken(req.adminToken, req.query)
  ELSE /\ Len(req.header) = 2
       /\ req.header[1] = "Bearer"
       /\ ValidateAdminToken(req.adminToken, req.header[2])

\* the status the handler answers with; saveOk is the outcome of SaveCookies
ImportStatus(req, saveOk) ==
  IF req.method # "POST" THEN 405
  ELSE IF ~ValidateRequest(req) THEN 401
  ELSE IF ~req.decodes THEN 400
  ELSE IF req.VenueID = 0 THEN 400
  ELSE IF ~saveOk THEN 500
  ELSE 200

\* the ttl without the default for values that are not positive
\* time.Duration is an int64 of nanoseconds: it holds 2562047 whole hours, and
\* 2^64 nanoseconds are a little less than 5124096 hours
MaxDurationHours == 2562047
WrapHours == 5124096

\* time.Duration(n) * time.Hour for 0 <= n < WrapHours, in whole hours rounded
\* down: the product wraps to a negative duration above MaxDurationHours
HoursDuration(n) == IF n > MaxDurationHours THEN n - WrapHours ELSE n

\* ttl := 24 * time.Hour; if req.TTLHours > 0 { ttl = TTLHours * time.Hour }
ImportTTL(ttlHours) ==
  IF ttlHours > 0 THEN HoursDuration(ttlHours) ELSE DefaultImportTTL

\* the submitted entries as http.Cookie values
HTTPCookies(cookies) == [n \in 1..Len(cookies) |-> Cookie(cookies[n].name, cookies[n].value)]

ImportedLists ==
  { << >>,
    <<Cookie("incap_ses_1", "v2")>>,
    <<Cookie("nlbi_1", "v1"), Cookie("_ga", "v1")>> }

ImportRequests ==
  {ImportRequest(cfg, m, h, q, dec, v, cs, ua, ttl) :
     cfg \in {"", "secret"}, m \in {"POST", "GET"},
     h \in {<< >>, <<"Bearer", "secret">>, <<"Bearer", "wrong">>, <<"secret">>},
     q \in {"", "secret"}, dec \in BOOLEAN, v \in 0..MaxVenues,
     cs \in ImportedLists, ua \in {"", "Imported/1.0"},
     ttl \in {-1, 0, 2, 48, MaxDurationHours + 1}}

\* authorised imports for the known venues
TokenImports ==
  {ImportRequest("secret", "POST", <<"Bearer", "secret">>, "", TRUE, v,
                 <<Cookie("incap_ses_1", "v2")>>, "Imported/1.0", ttl) :
     v \in 1..MaxVenues, ttl \in {0, 2, 8}}

\* a request to /admin/cookies/import is handled
Import(requests) ==
  /\ imports < MaxImports
  /\ imports' = imports + 1
  /\ \E req \in requests, ok \in CmdOutcomes(FALSE) :
       /\ i_req' = req
       /\ i_status' = ImportStatus(req, ok)
       /\ IF ImportStatus(req, ok) = 200
          THEN /\ cookieData' = SaveCookies(cookieData, req.VenueID, HTTPCookies(req.Cookies),
                                            req.UserAgent, ImportTTL(req.TTLHours))
               /\ saved' = saved \cup {req.VenueID}
          ELSE UNCHANGED <<cookieData, saved>>
       /\ faultsLeft' = IF ImportStatus(req, TRUE) = 200
                        THEN FaultsAfter(ok, FALSE) ELSE faultsLeft
  /\ UNCHANGED <<refreshVars, hours, cancelled, notTokenVars>>

\* the refresh goroutine alone, FetchCookies and Redis never failing
WarmNext ==
  \/ RefreshStart
  \/ RangeStep(FALSE)
  \/ FetchReturn({"ok"}, FALSE)
  \/ Select
  \/ HourPasses(MaxHours)

WarmSpec == Init /\ [][WarmNext]_vars

\* the refresh goroutine with failures, shutdown and imports
TokenNext ==
  \/ RefreshStart
  \/ RangeStep(TRUE)
  \/ FetchReturn({"ok", "fail"}, TRUE)
  \/ Select
  \/ HourPasses(MaxTokenHours)
  \/ Shutdown
  \/ Import(TokenImports)

TokenSpec == Init /\ [][TokenNext]_vars

\* imports of every kind after the first refresh pass
ImportNext ==
  \/ RefreshStart
  \/ RangeStep(FALSE)
  \/ FetchReturn({"ok"}, FALSE)
  \/ Import(ImportRequests)

ImportSpec == Init /\ [][ImportNext]_vars

\* ------------------------------------------------------- TokenStore: claims

\* C24: once a known venue's tokens have been saved, the venue has tokens in
\* TokenStore at every later moment
C24_StaysWarm == \A v \in saved : v \in DOMAIN cookieData

\* the venue the range loop is at, and the step that gives it to
\* refreshCookiesIfNeeded
CheckedVenue == KnownVenueIDs[f_i + 1]

CheckStep ==
  /\ f_pc = "range"
  /\ f_i < Len(KnownVenueIDs)
  /\ Len(f_checked') = Len(f_checked) + 1

C26_EveryVenueChecked ==
  /\ [][f_checked' # f_checked =>
          \/ f_checked' = << >>
          \/ f_checked' = SubSeq(KnownVenueIDs, 1, Len(f_checked) + 1)]_vars
  /\ [][(f_pc \in {"range", "fetch"} /\ f_pc' = "range" /\ f_i' # f_i) =>
          f_i' = f_i + 1]_vars
  /\ [][(f_pc = "range" /\ f_pc' = "select" /\ ~cancelled) =>
          f_checked = KnownVenueIDs]_vars

\* C26 witness: a pass returned after a store error at the first venue and a
\* refresh of the second
C26_Witness ==
  /\ f_pc = "select"
  /\ ~cancelled
  /\ imports = 0
  /\ faultsLeft < MaxFaults
  /\ f_checked = KnownVenueIDs
  /\ saved = {2}

\* The operators CarriesToken and ProperlyAuthorised are terms of the
\* statement below, written from the statement.

\* the configured admin token is somewhere in the request
CarriesToken(req) ==
  /\ req.adminToken # ""
  /\ \/ req.query = req.adminToken
     \/ \E n \in 1..Len(req.header) : req.header[n] = req.adminToken

\* the request presents the configured admin token as a bearer token, or as
\* the token parameter when it has no Authorization header
ProperlyAuthorised(req) ==
  /\ req.adminToken # ""
  /\ \/ req.header = <<"Bearer", req.adminToken>>
     \/ (req.header = << >> /\ req.query = req.adminToken)

\* C27: an import answered with 200 leaves the venue's entry with exactly the
\* submitted token list and user-agent and with a remaining TTL of the
\* submitted hours, 24 when they are not positive, and every other entry as it
\* was; an authorised POST that decodes, has a non-zero venue id and meets no
\* store error is answered with 200; any other import, in particular one with
\* venue id 0 or without the admin token, changes nothing in TokenStore
C27_ImportReplacesEntry ==
  [][imports' = imports + 1 =>
       LET req == i_req'
           ttl == IF req.TTLHours > 0 THEN req.TTLHours ELSE 24
       IN  /\ i_status' = 200 =>
                /\ DOMAIN cookieData' = DOMAIN cookieData \cup {req.VenueID}
                /\ cookieData'[req.VenueID].Cookies = req.Cookies
                /\ cookieData'[req.VenueID].UserAgent = req.UserAgent
                /\ GetCookieTTL(cookieData', req.VenueID) = ttl
                /\ \A v \in DOMAIN cookieData \ {req.VenueID} :
                     cookieData'[v] = cookieData[v]
           /\ i_status' # 200 => cookieData' = cookieData
           /\ (req.VenueID = 0 \/ ~CarriesToken(req)) => i_status' # 200
           /\ (/\ ProperlyAuthorised(req) /\ req.method = "POST" /\ req.decodes
               /\ req.VenueID # 0 /\ faultsLeft' = faultsLeft) => i_status' = 200]_vars

\* --------------------------------------------------- Reserve: the pair loops

\* passes of the outer loop over one call's instants
Passes == IF Len(r_types) = 0 THEN 1 ELSE Len(r_types)

\* the n-th pair of the preference-major order: all instants with the first
\* table type, then all instants with the second; no filter without table types
PreferenceMajor(n) ==
  Pair(Len(r_types) > 0,
       IF Len(r_types) > 0 THEN r_types[((n - 1) \div Len(r_times)) + 1] ELSE << >>,
       r_times[((n - 1) % Len(r_times)) + 1])

\* C32: the pairs Reserve searches are, in order, a prefix of the
\* preference-major enumeration of (table type, instant); without table types
\* it is one pass over the instants with no filter; and Reserve reports
\* ErrNoTable from the loops only after every pair of the enumeration was searched
C32_PreferenceMajor ==
  /\ Len(r_pairs) <= Passes * Len(r_times)
  /\ \A n \in 1..Len(r_pairs) : r_pairs[n] = PreferenceMajor(n)
  /\ Len(r_types) = 0 =>
       \A n \in 1..Len(r_pairs) : ~r_pairs[n].filtered /\ r_pairs[n].tableType = << >>
  /\ (r_pc = "done" /\ r_result.kind = "ErrNoTable") =>
       Len(r_pairs) = Passes * Len(r_times)

\* C32 witness: two table types and two instants, all four pairs searched
C32_Witness ==
  /\ r_pc = "done"
  /\ Len(r_types) = 2 /\ Len(r_times) = 2
  /\ Len(r_pairs) = 4
  /\ r_pairs[2].tableType = r_types[1] /\ r_pairs[2].instant = r_times[2]
  /\ r_pairs[3].tableType = r_types[2] /\ r_pairs[3].instant = r_times[1]

\* ------------------------------------------------ Reserve: the detail step

\* the pair after (r_k, r_i) in the loops
NextPair ==
  IF r_i + 1 < Len(r_times) THEN <<r_k, r_i + 1>> ELSE <<r_k + 1, 0>>

\* the detail call brought no response: client.Do failed or the body broke off
DetailTransportError(resp) == resp.err \/ resp.body = "readerr"

C35_OneSlotPerPair ==
  /\ [][r_pc' = "detail" =>
          \/ r_pc = "detail"
          \/ (r_pc = "pair" /\ Len(r_pairs') = Len(r_pairs) + 1)]_vars
  /\ [][r_pc' = "book" =>
          \/ r_pc = "book"
          \/ (r_pc = "detail" /\ r_pairs' = r_pairs /\ <<r_k', r_i'>> = <<r_k, r_i>>)]_vars
  /\ [][(r_pc \in {"detail", "book"} /\ r_pc' = "pair") =>
          (<<r_k', r_i'>> = NextPair /\ r_sent' = r_sent)]_vars
  /\ [][r_sent' # r_sent =>
          \/ (r_pc = "pair" /\ r_pc' = "detail")
          \/ (r_pc = "detail" /\ r_pc' = "book")]_vars
  /\ [][(r_pc = "book" /\ r_pc' # "book" /\ BookConfirmed(r_resp')) =>
          /\ r_pc' = "done"
          /\ r_result'.kind = "ok"
          /\ r_sent' = r_sent]_vars
  /\ [][r_pc = "done" =>
          (r_pc' = "done" /\ r_sent' = r_sent /\ r_pairs' = r_pairs
           /\ r_result' = r_result)]_vars

\* C35 witness: the second of four pairs is confirmed; two pairs stay untried
C35_Witness ==
  /\ r_pc = "done"
  /\ r_result.kind = "ok"
  /\ Len(r_types) = 2 /\ Len(r_times) = 2
  /\ Len(r_pairs) = 2
  /\ Cardinality({q \in r_sent : q.step = "book"}) = 2

\* ------------------------------------------------ Reserve: find, detail, book

\* the find call gave a response with a success status
FindSucceeded(resp) == resp.step = "find" /\ ~resp.err /\ resp.status \div 100 = 2

\* the detail call gave a response with a success status and a book token
DetailGaveToken(resp) ==
  resp.step = "detail" /\ ~resp.err /\ resp.status \div 100 = 2 /\ resp.body = "ok"

\* nothing is sent before the find call returns, the loops are entered only
\* after a successful find, a detail request is sent only from the loops, and
\* a book request only on a detail response with a book token, for the slot
\* and the pair of the detail request sent last
ProtocolOrder ==
  /\ [][r_pc = "find" =>
          /\ r_sent' = { }
          /\ r_pc' = "pair" => FindSucceeded(r_resp')]_vars
  /\ [][\A q \in r_sent' \ r_sent :
          /\ q.step = "detail" => r_pc = "pair"
          /\ q.step = "book" =>
               /\ r_pc = "detail"
               /\ DetailGaveToken(r_resp')
               /\ q.currentTime = r_times[r_i + 1]
               /\ Request("detail", q.cfg, q.slotTime, q.currentTime) \in r_sent]_vars

\* C34: find, detail and book follow each other in that order, and the detail
\* and book requests of a pair are for the slot the slot search matched: the
\* config token they exchange is that slot's
C34_FindDetailBook ==
  /\ ProtocolOrder
  /\ [](\A q \in r_sent : ParseInLocation(q.cfg) = q.slotTime)

\* --------------------------------------------- Reserve: the venue selection

\* blocks of results.venues: id 0 is a block whose venue.id.resy cannot be read
VenueBlocks ==
  {Venue(id, FALSE, << >>) : id \in {0, RequestedVenue, OtherVenue}}
  \cup {Venue(id, TRUE, sl) :
          id \in {0, RequestedVenue, OtherVenue},
          sl \in {<<Slot(Start(1, 19, 0), TRUE, Patio, TRUE)>>,
                  <<Slot(Start(1, 18, 45), TRUE, IndoorDiningRoom, TRUE)>>}}

VenueBlockLists == {q \in SeqsUpTo(VenueBlocks, MaxBlocks) : Len(q) >= 1}

\* the venue selection of Reserve on a list of blocks and a requested venue id
SelectVenueOf ==
  /\ fn_pc = "idle"
  /\ \E venues \in VenueBlockLists, venueID \in {RequestedVenue, OtherVenue} :
       /\ fn_resp' = [venues |-> venues, venueID |-> venueID]
       /\ fn_out' = SelectVenue(venues, venueID)
  /\ fn_pc' = "selected"
  /\ UNCHANGED <<fn_cookies, hours, cookieData, refreshVars, saved, importVars,
                 notCookieVars>>

SelectSpec == Init /\ [][SelectVenueOf]_vars

\* C33: when some block of the result list has the requested venue id, at
\* whatever position, the block Reserve reads its slots from is a block of the
\* list with that id, and no block before it has the id; when no block has it,
\* it is the first block
C33_RequestedVenueFirst ==
  fn_pc = "selected" =>
    LET venues == fn_resp.venues
        venueID == fn_resp.venueID
        has == {n \in 1..Len(venues) : venues[n].id = venueID}
    IN  /\ has # { } =>
             \E n \in has : /\ fn_out = venues[n]
                            /\ \A m \in has : n <= m
        /\ has = { } => fn_out = venues[1]

\* C33 witness: the requested venue is the third block, behind another venue
\* and a block without a readable id, and its slots are the ones taken
C33_Witness ==
  /\ fn_pc = "selected"
  /\ Len(fn_resp.venues) = 3
  /\ fn_resp.venues[1].id = OtherVenue /\ fn_resp.venues[1].hasSlots
  /\ fn_resp.venues[2].id = 0
  /\ fn_resp.venues[3].id = fn_resp.venueID /\ fn_resp.venues[3].hasSlots
  /\ fn_out = fn_resp.venues[3]
  /\ fn_out.slots # fn_resp.venues[1].slots

\* ------------------------------------- the parameters of a booking attempt

\* api.LoginResponse as the handlers fill it
LoginResponse(authToken, paymentMethodID) ==
  [AuthToken |-> authToken, PaymentMethodID |-> paymentMethodID]

\* api.ReserveParam
ReserveParam(venueID, reservationTimes, partySize, loginResp, tableTypes) ==
  [VenueID |-> venueID, ReservationTimes |-> reservationTimes, PartySize |-> partySize,
   LoginResp |-> loginResp, TableTypes |-> tableTypes]

\* sessions written at login: the auth token and the payment method id
Sessions == [auth_token : {"tokA", "tokB"}, payment_method_id : {7, 8}]

\* bodies of POST /api/reserve after parseTimeNYC
ReserveRequests ==
  [VenueID : {RequestedVenue, OtherVenue}, ReservationTime : {Time(6, 0), Time(7, 0)},
   PartySize : {2, 4}, TablePreferences : TableTypeLists]

\* the handler's ReserveParam of an immediate booking
ImmediateParam(req, session) ==
  ReserveParam(req.VenueID, <<req.ReservationTime>>, req.PartySize,
               LoginResponse(session.auth_token, session.payment_method_id),
               req.TablePreferences)

\* the record the handler stores for a deferred booking
ScheduledReservation(req, session, run, created) ==
  [ID |-> UnixNano(created), VenueID |-> req.VenueID,
   ReservationTime |-> req.ReservationTime, PartySize |-> req.PartySize,
   TablePreferences |-> req.TablePreferences, AuthToken |-> session.auth_token,
   RunTime |-> run, CreatedAt |-> created]

\* the scheduler's ReserveParam of the record it read: LoginResponse gets the
\* auth token only, PaymentMethodID keeps Go's zero value
ScheduledParam(res) ==
  ReserveParam(res.VenueID, <<res.ReservationTime>>, res.PartySize,
               LoginResponse(res.AuthToken, 0), res.TablePreferences)

\* struct_payment_method of the book request
PaymentMethodField(param) == <<"id", param.LoginResp.PaymentMethodID>>

\* one request of one session goes both ways: attempted at once, and stored,
\* read back and attempted by the scheduler
BuildParams ==
  /\ fn_pc = "idle"
  /\ \E req \in ReserveRequests, session \in Sessions :
       /\ fn_resp' = [req |-> req, session |-> session]
       /\ fn_out' =
            [immediate |-> ImmediateParam(req, session),
             deferred |-> ScheduledParam(Unmarshal(Marshal(
                            ScheduledReservation(req, session, Time(5, 0), Time(1, 0)))))]
  /\ fn_pc' = "params"
  /\ UNCHANGED <<fn_cookies, hours, cookieData, refreshVars, saved, importVars,
                 notCookieVars>>

ParamSpec == Init /\ [][BuildParams]_vars

\* C37: the scheduler attempts a stored booking with the parameters the
\* handler would use at once for the same request of the same session: venue,
\* instant, party size, table preferences, auth token and payment method id,
\* so both book requests name the same payment method
C37_SameParameters ==
  fn_pc = "params" =>
    /\ fn_out.deferred = fn_out.immediate
    /\ PaymentMethodField(fn_out.deferred) = PaymentMethodField(fn_out.immediate)

\* the five parameters the stored record carries are the same both ways
SameStoredParameters ==
  fn_pc = "params" =>
    /\ fn_out.deferred.VenueID = fn_out.immediate.VenueID
    /\ fn_out.deferred.ReservationTimes = fn_out.immediate.ReservationTimes
    /\ fn_out.deferred.PartySize = fn_out.immediate.PartySize
    /\ fn_out.deferred.TableTypes = fn_out.immediate.TableTypes
    /\ fn_out.deferred.LoginResp.AuthToken = fn_out.immediate.LoginResp.AuthToken

\* ------------------------------------------------- the store: dangling ids

\* C38: in every state of the store every id of the pending set has a detail
\* record, so GetNextReservation never fails on the first id for want of its
\* record, and CountPendingReservations is the number of pending ids whose
\* record can be read
C38_NoDanglingId ==
  /\ \A id \in DOMAIN pending : id \in DOMAIN details
  /\ GetNextReservation(details, pending) # ErrRes
  /\ CountPendingReservations =
       Cardinality({id \in DOMAIN pending : id \in DOMAIN details})

\* ------------------------------------------------ scheduler: bounded response

\* a goroutine is at a step that takes no time on the scale of the 30 second
\* tick: a Redis command that is answered, a test, a select that is ready
SchedulerBusy ==
  \/ d_pc \in {"top", "zrange", "get", "check", "zrem", "del"}
  \/ (d_pc = "wait" /\ wake # None)

HandlerBusy == \E h \in Handlers : h_pc[h] # "idle"

\* 30 seconds pass while the scheduler waits or Reserve runs
TimedTickSec ==
  /\ ~SchedulerBusy
  /\ ~HandlerBusy
  /\ TickSec

NextTimed ==
  \/ ReserveHandler
  \/ Scheduler
  \/ TickNano
  \/ TimedTickSec

\* one process life with a store that answers, and time measured in waits
TimedSpec == InitReachable /\ [][NextTimed]_vars

\* the latest start of a record's attempt: the wait cap after the later of its
\* run instant and the tick it was stored in
Deadline(res) ==
  (IF res.RunTime.sec > res.CreatedAt.sec THEN res.RunTime.sec ELSE res.CreatedAt.sec)
  + WaitCap

\* C39: whenever the scheduler is in one of its waits, empty-queue wait
\* included, and the pending set has a first id, that id's record can be read
\* and the wait ends no later than the wait cap after the later of the record's
\* run instant and its insertion, so the attempt that follows the wait starts
\* by then
C39_BoundedResponse ==
  (d_pc = "wait" /\ wake = None /\ ZRangeFirst(pending) # NoId) =>
    /\ ZRangeFirst(pending) \in DOMAIN details
    /\ clock.sec + timer <= Deadline(Unmarshal(details[ZRangeFirst(pending)]))

\* --------------------------------------- Reserve calls on the shared API value
\* main builds one API value and hands it to the handler and to the scheduler;
\* each Reserve call loads its venue's tokens into API.Cookies, builds the
\* find request from API.Cookies and gives it to doRequestWithRetry. A step
\* of a call is atomic here; the unsynchronised accesses of the two goroutines
\* can only add outcomes to the interleavings below.

FindRetries == 2

SeqElems(q) == {q[n] : n \in 1..Len(q)}

\* what the API answers to a find request for a venue: a result, or a
\* challenge that sets a fresh token for that venue
FindResponses(venueID) ==
  { [status |-> 200, xcdn |-> "", server |-> "", setCookie |-> << >>],
    [status |-> 403, xcdn |-> "Imperva", server |-> "",
     setCookie |-> <<Cookie("nlbi_1", IF venueID = 1 THEN "v1" ELSE "v2")>>] }

\* the tokens extractCookiesFromResponse takes from a response
HarvestedFrom(resp) ==
  IF resp.xcdn = "Imperva" \/ resp.server = "nginx"
  THEN {k \in SeqElems(resp.setCookie) : IsImpervaCookie(k.name)}
  ELSE {}

notCallVars == <<clock, storeVars, handlerVars, schedVars, cancelled, restarts,
                 c_pc, c_maxRetries, c_hasBody, c_attempt, c_origCookies,
                 c_reqCookies, c_sent, c_allChallenge, c_result, c_calls, c_last,
                 reserveVars, fnVars, hours, cookieData, refreshVars, saved,
                 importVars>>

\* Reserve starts: LoadCookiesFromStore(params.VenueID); when GetCookies fails
\* the call goes on with API.Cookies as it is
LoadCookiesFromStore(c) ==
  /\ v_pc[c] = "idle"
  /\ \E venueID \in 1..MaxVenues, ok \in CmdOutcomes(FALSE) :
       LET found == ok /\ venueID \in DOMAIN cookieData
       IN  /\ v_venue' = [v_venue EXCEPT ![c] = venueID]
           /\ a_cookies' = IF found THEN cookieData[venueID].Cookies ELSE a_cookies
           /\ v_loaded' = [v_loaded EXCEPT ![c] =
                             IF found THEN SeqElems(cookieData[venueID].Cookies) ELSE {}]
           /\ faultsLeft' = FaultsAfter(ok, FALSE)
  /\ v_pc' = [v_pc EXCEPT ![c] = "build"]
  /\ UNCHANGED <<v_attempt, v_orig, v_harvested, v_sent, notCallVars>>

\* the request gets API.Cookies (addCookiesToRequest), on a retry on top of
\* the saved headers, and client.Do sends it
SendFind(c) ==
  /\ v_pc[c] = "build"
  /\ LET header == IF v_attempt[c] = 0 THEN << >> ELSE v_orig[c]
         cookies == AddCookiesToRequest(header, a_cookies)
     IN  /\ v_orig' = [v_orig EXCEPT ![c] = IF v_attempt[c] = 0 THEN cookies ELSE @]
         /\ v_sent' = v_sent \cup
              {[caller |-> c, venue |-> v_venue[c], cookies |-> cookies,
                own |-> v_loaded[c] \cup v_harvested[c]]}
  /\ v_pc' = [v_pc EXCEPT ![c] = "recv"]
  /\ UNCHANGED <<a_cookies, faultsLeft, v_venue, v_attempt, v_loaded, v_harvested,
                 notCallVars>>

\* client.Do returns: a challenge is harvested into API.Cookies and the
\* request is retried while attempts are left; nothing is written to the store
ReceiveFind(c) ==
  /\ v_pc[c] = "recv"
  /\ \E resp \in FindResponses(v_venue[c]) :
       IF IsImpervaChallenge(resp)
       THEN /\ a_cookies' = ExtractCookiesFromResponse(a_cookies, resp)
            /\ v_harvested' = [v_harvested EXCEPT ![c] = @ \cup HarvestedFrom(resp)]
            /\ IF RetryAllowed(v_attempt[c], FindRetries)
               THEN /\ v_attempt' = [v_attempt EXCEPT ![c] = @ + 1]
                    /\ v_pc' = [v_pc EXCEPT ![c] = "build"]
               ELSE /\ v_pc' = [v_pc EXCEPT ![c] = "done"]
                    /\ UNCHANGED v_attempt
       ELSE /\ v_pc' = [v_pc EXCEPT ![c] = "done"]
            /\ UNCHANGED <<a_cookies, v_harvested, v_attempt>>
  /\ UNCHANGED <<faultsLeft, v_venue, v_orig, v_loaded, v_sent, notCallVars>>

CallNext ==
  \/ RefreshStart
  \/ RangeStep(FALSE)
  \/ FetchReturn({"ok", "fail"}, FALSE)
  \/ \E c \in Callers : LoadCookiesFromStore(c)
  \/ \E c \in Callers : SendFind(c)
  \/ \E c \in Callers : ReceiveFind(c)

CallSpec == Init /\ [][CallNext]_vars

\* a token that a Reserve call for another venue loaded or harvested
ForeignToken(k, venueID) ==
  \E c \in Callers : v_venue[c] \notin {0, venueID} /\ k \in v_loaded[c] \cup v_harvested[c]

\* C22: no request sent for a Reserve call for venue v carries a token that a
\* Reserve call for a different venue loaded or harvested, unless the call
\* itself loaded it from v's entry or harvested it
C22_NoTokensOfAnotherVenue ==
  \A s \in v_sent : \A k \in SeqElems(s.cookies) :
    k \in s.own \/ ~ForeignToken(k, s.venue)

\* C23: when a call for venue v harvests tokens from a challenge response, v
\* has an entry in TokenStore after that step and the entry holds those tokens
C23_HarvestFedBack ==
  [][\A c \in Callers :
       v_harvested'[c] # v_harvested[c] =>
         /\ v_venue[c] \in DOMAIN cookieData'
         /\ v_harvested'[c] \ v_harvested[c] \subseteq
              SeqElems(cookieData'[v_venue[c]].Cookies)]_vars

====
